---- MODULE Spec2Model ----
(***************************************************************************)
(* Code Backup Daemon: the reconciliation engine (BackupService), its      *)
(* registry of tracked repositories, the project validator and the         *)
(* per-folder backup primitive.                                            *)
(*                                                                         *)
(* Every handler is one atomic action.  The external collaborators (the    *)
(* folders on disk, git, the hosting service) are the environment: a       *)
(* handler finds each folder it looks at in any of the conditions of       *)
(* FolderKinds, and a call may fail or raise.  A handler is therefore      *)
(* modelled as the SET of the outcomes it can end in, each with the        *)
(* registry it leaves, what it returned and the log of the external calls  *)
(* and registry stamps it made; the action takes one of them.              *)
(***************************************************************************)
EXTENDS Integers, Sequences, FiniteSets, TLC

VARIABLES
    tracked_repos,        \* BackupService.tracked_repos: dict in insertion order, as a sequence of records
    state_file,           \* the persisted snapshot's 'tracked_repos' (save_state)
    now,                  \* datetime.now(): a logical clock, read once per handler
    project_preferences,  \* Config 'project_preferences': the names whose 'enabled' is False
    watched_paths,        \* Config 'watched_paths': the list of path configurations
    world,                \* the folders there can be under the watched roots, in iterdir() order
    is_running,           \* BackupService.is_running
    folder_watchers,      \* BackupService.folder_watchers: a list of [path, running]
    backup_thread,        \* BackupService.backup_thread is there and alive
    threads               \* where the threads that run without a lock stand inside their handlers

vars == <<tracked_repos, state_file, now, project_preferences, watched_paths, world,
          is_running, folder_watchers, backup_thread, threads>>

cfgVars == <<project_preferences, watched_paths, world>>

svcVars == <<is_running, folder_watchers, backup_thread, threads>>

-----------------------------------------------------------------------------
(* Bounds *)

\* The clock stops at MaxTime: a handler that reads the time runs only before.
MaxTime == 2

None == "none"

\* None where a timestamp is expected (the clock starts at 1)
Never == 0

-----------------------------------------------------------------------------
(* Folder names and paths.  A name is its sequence of characters, so that  *)
(* the ignore check can look inside it; a path is <<root, name>>.          *)

Foo == <<"f", "o", "o">>
Tmp == <<"T", "m", "p">>

Roots == {"A", "B"}

\* the folders of the world
Folders == {world[i] : i \in DOMAIN world}

NameOf(f) == f[2]

RootOf(f) == f[1]

\* str.lower() on the characters the names use
Lower(c) == IF c = "T" THEN "t" ELSE c

LowerName(n) == [i \in DOMAIN n |-> Lower(n[i])]

\* `pattern in text` for strings
Contains(text, pattern) ==
    \E i \in 0..(Len(text) - Len(pattern)) :
        \A j \in 1..Len(pattern) : text[i + j] = pattern[j]

\* project_detection.ignore_patterns: the defaults that can match these names
ignore_patterns == {<<"e", "n", "v">>, <<"t", "m", "p">>, <<".", "g", "i", "t">>, <<".", "D", "S">>}

temp_folders == {<<"t", "m", "p">>, <<"t", "e", "m", "p">>, <<"l", "o", "g">>}

ShouldIgnoreFolder(n) ==
    \/ \E p \in ignore_patterns : Contains(LowerName(n), p)
    \/ (Len(n) > 0 /\ n[1] = ".")
    \/ LowerName(n) \in temp_folders

-----------------------------------------------------------------------------
(* The filesystem and the project validator *)

min_size_bytes == 1024

NoContent == [indicator |-> FALSE, code_top |-> FALSE, code_sub |-> FALSE,
              total_size |-> 0, file_count |-> 0, walk_error |-> FALSE]

\* three text files, 2 KB, no manifest and no source file
Notes == [indicator |-> FALSE, code_top |-> FALSE, code_sub |-> FALSE,
          total_size |-> 2048, file_count |-> 3, walk_error |-> FALSE]

\* package.json and 2 KB of files
Project == [indicator |-> TRUE, code_top |-> FALSE, code_sub |-> FALSE,
            total_size |-> 2048, file_count |-> 2, walk_error |-> FALSE]

Missing == [exists |-> FALSE, git |-> FALSE, remote |-> FALSE, dirty |-> FALSE, content |-> NoContent]

Plain(c) == [exists |-> TRUE, git |-> FALSE, remote |-> FALSE, dirty |-> FALSE, content |-> c]

GitRepo(r, d) == [exists |-> TRUE, git |-> TRUE, remote |-> r, dirty |-> d, content |-> Project]

\* what a folder can be on disk
FolderKinds ==
    {Missing, Plain(Notes), Plain(Project), GitRepo(FALSE, FALSE), GitRepo(TRUE, FALSE), GitRepo(TRUE, TRUE)}

\* FolderWatcher.is_valid_project
IsValidProject(d) ==
    IF d.git THEN TRUE
    ELSE IF ~d.exists THEN FALSE   \* iterdir() raises, the handler returns False
    ELSE LET c == d.content
             has_indicator == c.indicator
             has_code_files == c.code_top \/ c.code_sub
             total_size == IF c.walk_error THEN min_size_bytes ELSE c.total_size
             is_substantial == total_size >= min_size_bytes
             has_multiple_files == c.file_count >= 3
         IN  \/ has_indicator
             \/ (has_code_files /\ is_substantial)
             \/ (has_code_files /\ has_multiple_files)

\* GitService.is_git_repo
IsGitRepo(d) == d.exists /\ d.git

\* GitService.has_remote
HasRemote(d) == d.exists /\ d.git /\ d.remote

\* GitService.get_remote_url
GetRemoteUrl(d) == IF HasRemote(d) THEN "origin-url" ELSE None

-----------------------------------------------------------------------------
(* The registry: an insertion-ordered dict keyed by path *)

Paths(repos) == {repos[i].path : i \in DOMAIN repos}

IsTracked(repos, p) == p \in Paths(repos)

IndexOf(repos, p) == CHOOSE i \in DOMAIN repos : repos[i].path = p

\* tracked_repos[key] = rec: a new key goes last, an existing key keeps its place
Put(repos, rec) ==
    IF IsTracked(repos, rec.path)
    THEN [repos EXCEPT ![IndexOf(repos, rec.path)] = rec]
    ELSE Append(repos, rec)

\* del tracked_repos[key]
Del(repos, i) == [j \in 1..(Len(repos) - 1) |-> IF j < i THEN repos[j] ELSE repos[j + 1]]

\* the dict literal the three tracking sites build; last_check and last_error are not in it
NewRecord(f, t, last_backup, backup_count, status, url, account) ==
    [name |-> NameOf(f), path |-> f, created_at |-> t, last_backup |-> last_backup,
     backup_count |-> backup_count, status |-> status, has_remote |-> TRUE,
     remote_url |-> url, account_username |-> account,
     last_check |-> Never, last_error |-> None]

\* one entry of the log of a handler's external calls and registry stamps
Log(f, call, out) == [call |-> call, path |-> f, out |-> out]

Called(log, f, call) == \E i \in DOMAIN log : log[i].call = call /\ log[i].path = f

CountCalls(log, f, call) == Cardinality({i \in DOMAIN log : log[i].call = call /\ log[i].path = f})

Answered(log, f, call, out) ==
    \E i \in DOMAIN log : log[i].call = call /\ log[i].path = f /\ log[i].out = out

-----------------------------------------------------------------------------
(* _backup_repository: the per-folder backup primitive.  A handler's       *)
(* working state st is [repos, disk, calls]: the registry, the folder it   *)
(* works on as it is on disk, and the log so far.  The result is the set   *)
(* of [st, result] the call can end in.                                    *)

Result(success, changes_pushed, message) ==
    [success |-> success, changes_pushed |-> changes_pushed, message |-> message]

WithCall(st, f, call, out) == [st EXCEPT !.calls = Append(@, Log(f, call, out))]

BackupRepository(st, f) ==
    LET raised == {[st |-> WithCall(st, f, "has_uncommitted_changes", "raise"),
                    result |-> Result(FALSE, FALSE, "exception")]}
        clean == {[st |-> WithCall(st, f, "has_uncommitted_changes", "false"),
                   result |-> Result(TRUE, FALSE, "No changes to backup")]}
        st1 == WithCall(st, f, "has_uncommitted_changes", "true")
        pushed == [st |-> [WithCall(st1, f, "sync_repository", "true") EXCEPT !.disk.dirty = FALSE],
                   result |-> Result(TRUE, TRUE, "Pushed to GitHub")]
        refused == [st |-> WithCall(st1, f, "sync_repository", "false"),
                    result |-> Result(FALSE, FALSE, "Push failed")]
        broke == [st |-> WithCall(st1, f, "sync_repository", "raise"),
                  result |-> Result(FALSE, FALSE, "exception")]
    IN  raised \cup (IF st.disk.dirty THEN {pushed, refused, broke} ELSE clean)

-----------------------------------------------------------------------------
(* process_folder and the three ways it tracks a folder.  Each returns the *)
(* set of [st, ret] it can end in; t is the time the handler read.         *)

\* GitHubService.create_repository followed by the tracking of the folder
CreateAndTrack(st, f, pc, t) ==
    LET created == [st EXCEPT !.disk.remote = TRUE]
        track(s, out) ==
            [st |-> [WithCall(WithCall(s, f, "create_repository", out), f, "insert", "synced")
                        EXCEPT !.repos = Put(@, NewRecord(f, t, t, 1, "synced",
                                                          GetRemoteUrl(s.disk), pc.username))],
             ret |-> TRUE]
    IN  { track(created, "created"),
          \* a hosted repository of that name exists already: True, nothing done locally
          track(st, "exists"),
          [st |-> WithCall(st, f, "create_repository", "failed"), ret |-> FALSE],
          \* the hosted repository was created and the remote added, the push failed
          [st |-> WithCall(created, f, "create_repository", "failed"), ret |-> FALSE] }

AddRemoteToExistingRepo(st, f, pc, t) ==
    CreateAndTrack(WithCall(st, f, "set_repo_git_config", "done"), f, pc, t)

InitializeNewRepository_CreateFirst(st, f, pc, t) ==
    {[st |-> WithCall(o.st, f, "init_repo", "true"), ret |-> o.ret] : o \in CreateAndTrack(st, f, pc, t)}

InitializeNewRepository(st, f, pc, t) ==
    LET inited == [WithCall(st, f, "init_repo", "true") EXCEPT !.disk.git = TRUE, !.disk.dirty = FALSE]
    IN  {[st |-> WithCall(st, f, "init_repo", "false"), ret |-> FALSE]}
        \cup CreateAndTrack(inited, f, pc, t)

ProcessNonGitFolder_NoValidator(st, f, pc, is_initial_scan, t) ==
    InitializeNewRepository(WithCall(st, f, "is_valid_project",
                                     IF IsValidProject(st.disk) THEN "true" ELSE "false"), f, pc, t)

ProcessNonGitFolder(st, f, pc, is_initial_scan, t) ==
    IF ~IsValidProject(st.disk)
    THEN {[st |-> WithCall(st, f, "is_valid_project", "false"), ret |-> FALSE]}
    ELSE InitializeNewRepository(WithCall(st, f, "is_valid_project", "true"), f, pc, t)

ProcessExistingGitRepo_AlwaysBackup(st, f, pc, is_initial_scan, t) ==
    IF HasRemote(st.disk)
    THEN LET rec == NewRecord(f, t, Never, 0, "tracked", GetRemoteUrl(st.disk), pc.username)
             st1 == [WithCall(WithCall(st, f, "has_remote", "true"), f, "insert", "tracked")
                        EXCEPT !.repos = Put(@, rec)]
         IN  {[st |-> b.st, ret |-> TRUE] : b \in BackupRepository(st1, f)}
    ELSE AddRemoteToExistingRepo(WithCall(st, f, "has_remote", "false"), f, pc, t)

ProcessExistingGitRepo(st, f, pc, is_initial_scan, t) ==
    IF HasRemote(st.disk)
    THEN LET rec == NewRecord(f, t, Never, 0, "tracked", GetRemoteUrl(st.disk), pc.username)
             st1 == [WithCall(WithCall(st, f, "has_remote", "true"), f, "insert", "tracked")
                        EXCEPT !.repos = Put(@, rec)]
         IN  IF is_initial_scan
             THEN {[st |-> st1, ret |-> TRUE]}
             \* the result of the immediate backup is dropped
             ELSE {[st |-> b.st, ret |-> TRUE] : b \in BackupRepository(st1, f)}
    ELSE AddRemoteToExistingRepo(WithCall(st, f, "has_remote", "false"), f, pc, t)

ProcessFolder_NoTrackedCheck(st, f, pc, is_initial_scan, t) ==
    {[st |-> WithCall(o.st, f, "process_folder", IF o.ret THEN "true" ELSE "false"), ret |-> o.ret] :
        o \in IF IsGitRepo(st.disk)
              THEN ProcessExistingGitRepo(WithCall(st, f, "is_git_repo", "true"),
                                          f, pc, is_initial_scan, t)
              ELSE ProcessNonGitFolder(WithCall(st, f, "is_git_repo", "false"),
                                       f, pc, is_initial_scan, t)}

\* every return of process_folder is logged with what it returned
Returned(outs, f) ==
    {[st |-> WithCall(o.st, f, "process_folder", IF o.ret THEN "true" ELSE "false"),
      ret |-> o.ret] : o \in outs}

ProcessFolder(st, f, pc, is_initial_scan, t) ==
    Returned(IF IsTracked(st.repos, f)
             THEN {[st |-> st, ret |-> TRUE]}
             ELSE IF IsGitRepo(st.disk)
                  THEN ProcessExistingGitRepo(WithCall(st, f, "is_git_repo", "true"),
                                              f, pc, is_initial_scan, t)
                  ELSE ProcessNonGitFolder(WithCall(st, f, "is_git_repo", "false"),
                                           f, pc, is_initial_scan, t),
             f)

-----------------------------------------------------------------------------
(* backup_all_repositories: one sweep pass.  acc is the pass's working     *)
(* state: the registry, the log and the three local counters.              *)

\* Config.get_project_enabled
GetProjectEnabled(prefs, name) == name \notin prefs

\* the folder of record i is gone: the record is marked and the loop goes on
MarkMissing_Prune(acc, i) ==
    [acc EXCEPT !.calls = Append(@, Log(acc.repos[i].path, "path_exists", "false")),
                !.repos = Del(@, i)]

MarkMissing(acc, i) ==
    [acc EXCEPT !.calls = Append(@, Log(acc.repos[i].path, "path_exists", "false")),
                !.repos[i].status = "missing"]

\* repo_info['last_check'] = now, after _backup_repository returned b
Stamped_OnSuccess(acc, i, b, t) ==
    IF b.result.success
    THEN [acc EXCEPT !.calls = Append(b.st.calls, Log(acc.repos[i].path, "last_check", "stamp")),
                     !.repos[i].last_check = t]
    ELSE [acc EXCEPT !.calls = b.st.calls]

Stamped(acc, i, b, t) ==
    [acc EXCEPT !.calls = Append(b.st.calls, Log(acc.repos[i].path, "last_check", "stamp")),
                !.repos[i].last_check = t]

\* the three-way handling of the result of _backup_repository
ApplyResult_CountsNoChanges(a0, i, result, t) ==
    IF result.success
    THEN [a0 EXCEPT !.successful = @ + 1,
                    !.repos[i].last_backup = t,
                    !.repos[i].backup_count = @ + 1,
                    !.repos[i].status = IF result.changes_pushed THEN "synced" ELSE "no_changes"]
    ELSE [a0 EXCEPT !.failed = @ + 1,
                    !.repos[i].status = "failed",
                    !.repos[i].last_error = result.message]

ApplyResult_KeepsCount(a0, i, result, t) ==
    IF result.success /\ result.changes_pushed
    THEN [a0 EXCEPT !.successful = @ + 1,
                    !.repos[i].last_backup = t,
                    !.repos[i].status = "synced"]
    ELSE IF result.success /\ ~result.changes_pushed
    THEN [a0 EXCEPT !.skipped = @ + 1,
                    !.repos[i].status = "no_changes"]
    ELSE [a0 EXCEPT !.failed = @ + 1,
                    !.repos[i].status = "failed",
                    !.repos[i].last_error = result.message]

ApplyResult_DropsError(a0, i, result, t) ==
    IF result.success /\ result.changes_pushed
    THEN [a0 EXCEPT !.successful = @ + 1,
                    !.repos[i].last_backup = t,
                    !.repos[i].backup_count = @ + 1,
                    !.repos[i].status = "synced"]
    ELSE IF result.success /\ ~result.changes_pushed
    THEN [a0 EXCEPT !.skipped = @ + 1,
                    !.repos[i].status = "no_changes"]
    ELSE [a0 EXCEPT !.failed = @ + 1,
                    !.repos[i].status = "failed"]

ApplyResult(a0, i, result, t) ==
    IF result.success /\ result.changes_pushed
    THEN [a0 EXCEPT !.successful = @ + 1,
                    !.repos[i].last_backup = t,
                    !.repos[i].backup_count = @ + 1,
                    !.repos[i].status = "synced"]
    ELSE IF result.success /\ ~result.changes_pushed
    THEN [a0 EXCEPT !.skipped = @ + 1,
                    !.repos[i].status = "no_changes"]
    ELSE [a0 EXCEPT !.failed = @ + 1,
                    !.repos[i].status = "failed",
                    !.repos[i].last_error = result.message]

\* the body of the loop for the record at position i, whose folder is found as d
SweepRecordOn(acc, i, d, prefs, t) ==
    LET r == acc.repos[i]
        f == r.path
        \* Path.exists() raises (an OSError other than "not found"): the except branch
        excepted == [acc EXCEPT !.calls = Append(@, Log(f, "path_exists", "raise")),
                                !.failed = @ + 1,
                                !.repos[i].status = "error",
                                !.repos[i].last_error = "exception"]
        looked == [repos |-> acc.repos, disk |-> d,
                   calls |-> Append(acc.calls, Log(f, "path_exists", "true"))]
    IN  IF ~GetProjectEnabled(prefs, r.name)
        THEN {[acc EXCEPT !.skipped = @ + 1]}
        ELSE {excepted}
             \cup (IF ~d.exists
                   THEN {MarkMissing(acc, i)}
                   ELSE {ApplyResult(Stamped(acc, i, b, t), i, b.result, t) :
                           b \in BackupRepository(looked, f)})

SweepRecord(acc, i, prefs, t) == UNION {SweepRecordOn(acc, i, d, prefs, t) : d \in FolderKinds}

RECURSIVE SweepFrom_Abort(_, _, _, _)
SweepFrom_Abort(acc, i, prefs, t) ==
    IF i > Len(acc.repos)
    THEN {acc}
    ELSE UNION {IF a.failed > acc.failed THEN {a} ELSE SweepFrom_Abort(a, i + 1, prefs, t) :
                  a \in SweepRecord(acc, i, prefs, t)}

RECURSIVE SweepFrom(_, _, _, _)
\* the loop over tracked_repos.items(), from position i on
SweepFrom(acc, i, prefs, t) ==
    IF i > Len(acc.repos)
    THEN {acc}
    ELSE UNION {SweepFrom(a, i + 1, prefs, t) : a \in SweepRecord(acc, i, prefs, t)}

\* backup_all_repositories: the outcomes [repos, file, clock, ret, calls] of one pass
BackupAllRepositories ==
    IF tracked_repos = <<>>
    THEN {[repos |-> tracked_repos, file |-> state_file, clock |-> now, calls |-> <<>>,
           ret |-> [successful |-> 0, failed |-> 0, skipped |-> 0]]}
    ELSE {[repos |-> a.repos, file |-> a.repos, clock |-> now + 1, calls |-> a.calls,
           ret |-> [successful |-> a.successful, failed |-> a.failed, skipped |-> a.skipped]] :
             a \in SweepFrom([repos |-> tracked_repos, calls |-> <<>>,
                              successful |-> 0, failed |-> 0, skipped |-> 0],
                             1, project_preferences, now)}

-----------------------------------------------------------------------------
(* The handlers.  Each is the set of its outcomes in the current state,    *)
(* [repos, file, clock, ret, calls]: the registry and the snapshot file it *)
(* leaves, the clock after it, what it returned and its log.               *)

\* the folder conditions in which a folder is there
Present == {d \in FolderKinds : d.exists}

\* the (path configuration, folder) pairs initial_scan_all can visit, in order:
\* the folders under the roots in `present` that are not ignored
ScanItems(present) ==
    LET under(i) == SelectSeq(world,
                              LAMBDA f : /\ RootOf(f) = watched_paths[i].path
                                         /\ watched_paths[i].path \in present
                                         /\ ~ShouldIgnoreFolder(NameOf(f)))
        pairs(i) == [k \in DOMAIN under(i) |-> [pc |-> watched_paths[i], folder |-> under(i)[k]]]
        all[i \in 0..Len(watched_paths)] == IF i = 0 THEN <<>> ELSE all[i - 1] \o pairs(i)
    IN  all[Len(watched_paths)]

RECURSIVE ScanFrom(_, _, _, _)
\* the two nested loops of initial_scan_all, from item k on, st = [repos, calls]:
\* an item that is no directory is passed over, a directory is processed as it is found
ScanFrom(st, items, k, t) ==
    IF k > Len(items)
    THEN {st}
    ELSE LET f == items[k].folder
             processed == UNION {ProcessFolder([repos |-> st.repos, disk |-> d, calls |-> st.calls],
                                               f, items[k].pc, TRUE, t) : d \in Present}
         IN  UNION ({ScanFrom(st, items, k + 1, t)}
                    \cup {ScanFrom([repos |-> o.st.repos, calls |-> o.st.calls], items, k + 1, t) :
                            o \in processed})

InitialScanAll ==
    IF watched_paths = <<>>
    THEN {[repos |-> tracked_repos, file |-> state_file, clock |-> now, ret |-> None, calls |-> <<>>]}
    ELSE {[repos |-> st.repos, file |-> st.repos, clock |-> now + 1, ret |-> None, calls |-> st.calls] :
            st \in UNION {ScanFrom([repos |-> tracked_repos, calls |-> <<>>],
                                   ScanItems(present), 1, now) : present \in SUBSET Roots}}

\* process_folder on folder f found as d, for a caller that is not the initial scan
Processed(f, d, pc) ==
    ProcessFolder([repos |-> tracked_repos, disk |-> d, calls |-> <<>>], f, pc, FALSE, now)

\* on_new_folder_detected(folder_path, path_config): the callback of the watcher of
\* path configuration i, for a folder found as d
OnNewFolderDetected(f, i, d) ==
    {[repos |-> o.st.repos, file |-> IF o.ret THEN o.st.repos ELSE state_file, clock |-> now + 1,
      ret |-> o.ret, calls |-> o.st.calls, disk |-> o.st.disk] :
        o \in Processed(f, d, watched_paths[i])}

\* the first path configuration of the account, 0 if there is none
PathConfigOf(account) ==
    IF \E i \in DOMAIN watched_paths : watched_paths[i].username = account
    THEN CHOOSE i \in DOMAIN watched_paths :
            /\ watched_paths[i].username = account
            /\ \A j \in 1..(i - 1) : watched_paths[j].username # account
    ELSE 0

\* add_repository(folder_path, account_username) on a folder found as d;
\* account = None: no account given
AddRepository(f, account, d) ==
    LET i == IF account = None THEN (IF watched_paths = <<>> THEN 0 ELSE 1) ELSE PathConfigOf(account)
    IN  IF ~d.exists \/ i = 0
        THEN {[repos |-> tracked_repos, file |-> state_file, clock |-> now,
               ret |-> FALSE, calls |-> <<>>, disk |-> d]}
        ELSE {[repos |-> o.st.repos, file |-> state_file, clock |-> now + 1,
               ret |-> o.ret, calls |-> o.st.calls, disk |-> o.st.disk] :
                 o \in Processed(f, d, watched_paths[i])}

\* the add operation as its callers run it (the CLI command, the API endpoint):
\* add_repository, then save_state when it returned True
AddCommand_NoSave(f, account, d) == AddRepository(f, account, d)

AddCommand(f, account, d) ==
    {[o EXCEPT !.file = IF o.ret THEN o.repos ELSE o.file] : o \in AddRepository(f, account, d)}

\* the position of the first record with that name, 0 if there is none
FirstNamed(repos, name) ==
    IF \E i \in DOMAIN repos : repos[i].name = name
    THEN CHOOSE i \in DOMAIN repos :
            repos[i].name = name /\ \A j \in 1..(i - 1) : repos[j].name # name
    ELSE 0

RemoveRepository_AllNamed(name) ==
    LET kept == SelectSeq(tracked_repos, LAMBDA r : r.name # name)
    IN  IF FirstNamed(tracked_repos, name) = 0
        THEN {[repos |-> tracked_repos, file |-> state_file, clock |-> now, ret |-> FALSE, calls |-> <<>>]}
        ELSE {[repos |-> kept, file |-> kept, clock |-> now, ret |-> TRUE, calls |-> <<>>]}

\* remove_repository(repo_name)
RemoveRepository(name) ==
    LET i == FirstNamed(tracked_repos, name)
    IN  IF i = 0
        THEN {[repos |-> tracked_repos, file |-> state_file, clock |-> now, ret |-> FALSE, calls |-> <<>>]}
        ELSE {[repos |-> Del(tracked_repos, i), file |-> Del(tracked_repos, i), clock |-> now,
               ret |-> TRUE, calls |-> <<>>]}

DeleteRepositoryComplete_StopsOnFailure(name, delete_github, delete_local, exists) ==
    LET i == FirstNamed(tracked_repos, name)
        f == tracked_repos[i].path
        pc == PathConfigOf(tracked_repos[i].account_username)
        \* step 1: [github_deleted, errors, calls]
        step1 == IF ~delete_github
                 THEN {[github_deleted |-> FALSE, errors |-> <<>>, calls |-> <<>>]}
                 ELSE IF pc = 0
                 THEN {[github_deleted |-> FALSE, errors |-> <<"Account config not found">>, calls |-> <<>>]}
                 ELSE {[github_deleted |-> TRUE, errors |-> <<>>,
                        calls |-> <<Log(f, "delete_repository", "true")>>],
                       [github_deleted |-> FALSE, errors |-> <<"Failed to delete from GitHub">>,
                        calls |-> <<Log(f, "delete_repository", "false")>>],
                       [github_deleted |-> FALSE, errors |-> <<"GitHub deletion error">>,
                        calls |-> <<Log(f, "delete_repository", "raise")>>]}
        \* step 2: [local_deleted, errors, calls]
        step2 == IF ~delete_local \/ ~exists
                 THEN {[local_deleted |-> FALSE, errors |-> <<>>, calls |-> <<>>]}
                 ELSE {[local_deleted |-> TRUE, errors |-> <<>>,
                        calls |-> <<Log(f, "rmtree", "done")>>],
                       [local_deleted |-> FALSE, errors |-> <<"Local deletion error">>,
                        calls |-> <<Log(f, "rmtree", "raise")>>]}
    IN  IF i = 0
        THEN {[repos |-> tracked_repos, file |-> state_file, clock |-> now, calls |-> <<>>,
               ret |-> [github_deleted |-> FALSE, local_deleted |-> FALSE,
                        tracking_removed |-> FALSE, errors |-> <<"Repository not found">>]]}
        \* step 3 only when step 1 and step 2 reported no error
        ELSE {IF s1.errors \o s2.errors = <<>>
              THEN [repos |-> Del(tracked_repos, i), file |-> Del(tracked_repos, i), clock |-> now,
                    calls |-> s1.calls \o s2.calls \o <<Log(f, "remove_repository", "true")>>,
                    ret |-> [github_deleted |-> s1.github_deleted, local_deleted |-> s2.local_deleted,
                             tracking_removed |-> TRUE, errors |-> <<>>]]
              ELSE [repos |-> tracked_repos, file |-> state_file, clock |-> now,
                    calls |-> s1.calls \o s2.calls,
                    ret |-> [github_deleted |-> s1.github_deleted, local_deleted |-> s2.local_deleted,
                             tracking_removed |-> FALSE, errors |-> s1.errors \o s2.errors]] :
                 s1 \in step1, s2 \in step2}

\* delete_repository_complete(repo_name, delete_github, delete_local);
\* exists: whether the folder is there
DeleteRepositoryComplete(name, delete_github, delete_local, exists) ==
    LET i == FirstNamed(tracked_repos, name)
        f == tracked_repos[i].path
        pc == PathConfigOf(tracked_repos[i].account_username)
        \* step 1: [github_deleted, errors, calls]
        step1 == IF ~delete_github
                 THEN {[github_deleted |-> FALSE, errors |-> <<>>, calls |-> <<>>]}
                 ELSE IF pc = 0
                 THEN {[github_deleted |-> FALSE, errors |-> <<"Account config not found">>, calls |-> <<>>]}
                 ELSE {[github_deleted |-> TRUE, errors |-> <<>>,
                        calls |-> <<Log(f, "delete_repository", "true")>>],
                       [github_deleted |-> FALSE, errors |-> <<"Failed to delete from GitHub">>,
                        calls |-> <<Log(f, "delete_repository", "false")>>],
                       [github_deleted |-> FALSE, errors |-> <<"GitHub deletion error">>,
                        calls |-> <<Log(f, "delete_repository", "raise")>>]}
        \* step 2: [local_deleted, errors, calls]
        step2 == IF ~delete_local \/ ~exists
                 THEN {[local_deleted |-> FALSE, errors |-> <<>>, calls |-> <<>>]}
                 ELSE {[local_deleted |-> TRUE, errors |-> <<>>,
                        calls |-> <<Log(f, "rmtree", "done")>>],
                       [local_deleted |-> FALSE, errors |-> <<"Local deletion error">>,
                        calls |-> <<Log(f, "rmtree", "raise")>>]}
    IN  IF i = 0
        THEN {[repos |-> tracked_repos, file |-> state_file, clock |-> now, calls |-> <<>>,
               ret |-> [github_deleted |-> FALSE, local_deleted |-> FALSE,
                        tracking_removed |-> FALSE, errors |-> <<"Repository not found">>]]}
        \* step 3: remove_repository(repo_name)
        ELSE {[repos |-> Del(tracked_repos, i), file |-> Del(tracked_repos, i), clock |-> now,
               calls |-> s1.calls \o s2.calls \o <<Log(f, "remove_repository", "true")>>,
               ret |-> [github_deleted |-> s1.github_deleted, local_deleted |-> s2.local_deleted,
                        tracking_removed |-> TRUE, errors |-> s1.errors \o s2.errors]] :
                 s1 \in step1, s2 \in step2}

\* backup_repository(repo_name): the public, manual backup of one project, its folder found as d
BackupRepositoryByName(name, d) ==
    LET i == FirstNamed(tracked_repos, name)
        f == tracked_repos[i].path
        applied(b) ==
            LET r0 == [tracked_repos EXCEPT ![i].last_check = now]
            IN  IF b.result.success /\ b.result.changes_pushed
                THEN [r0 EXCEPT ![i].last_backup = now,
                                ![i].backup_count = @ + 1,
                                ![i].status = "synced"]
                ELSE IF b.result.success /\ ~b.result.changes_pushed
                THEN [r0 EXCEPT ![i].status = "no_changes"]
                ELSE [r0 EXCEPT ![i].status = "failed",
                                ![i].last_error = b.result.message]
    IN  IF i = 0 \/ ~d.exists
        THEN {[repos |-> tracked_repos, file |-> state_file, clock |-> now,
               ret |-> FALSE, calls |-> <<>>, disk |-> d]}
        ELSE {[repos |-> applied(b), file |-> applied(b), clock |-> now + 1,
               ret |-> b.result.success, disk |-> b.st.disk,
               calls |-> Append(b.st.calls, Log(f, "last_check", "stamp"))] :
                 b \in BackupRepository([repos |-> tracked_repos, disk |-> d, calls |-> <<>>], f)}

\* force_backup(repo_name): one project, the result of _backup_repository returned as it is
ForceBackup(name, d) ==
    LET i == FirstNamed(tracked_repos, name)
    IN  IF i = 0
        THEN {[repos |-> tracked_repos, file |-> state_file, clock |-> now,
               ret |-> FALSE, calls |-> <<>>, disk |-> d]}
        ELSE {[repos |-> tracked_repos, file |-> state_file, clock |-> now,
               ret |-> b.result, calls |-> b.st.calls, disk |-> b.st.disk] :
                 b \in BackupRepository([repos |-> tracked_repos, disk |-> d, calls |-> <<>>],
                                        tracked_repos[i].path)}

\* force_backup(): all projects
ForceBackupAll == {[o EXCEPT !.ret = TRUE] : o \in BackupAllRepositories}

\* one iteration of backup_loop
BackupLoopPass == BackupAllRepositories

-----------------------------------------------------------------------------
(* load_state and its two repair passes.  What the repair finds of a       *)
(* folder is a LoadKind: whether the folder is there, whether              *)
(* get_last_commit_info answered (info) and with which date, and whether   *)
(* _get_commit_count answered (count_ok) and with which count.             *)

MaxCommits == 2

Gone == [exists |-> FALSE, raises |-> FALSE, info |-> FALSE, date |-> Never, count_ok |-> FALSE, count |-> 0]

\* Path.exists() or get_last_commit_info raises
Unreadable == [Gone EXCEPT !.raises = TRUE]

\* the folder is there, get_last_commit_info answers None
NoCommits == [Gone EXCEPT !.exists = TRUE]

History(date, count_ok, count) ==
    [exists |-> TRUE, raises |-> FALSE, info |-> TRUE, date |-> date, count_ok |-> count_ok, count |-> count]

LoadKinds ==
    {Gone, Unreadable, NoCommits}
        \cup {History(u, TRUE, c) : u \in 1..MaxTime, c \in 1..MaxCommits}
        \cup {History(u, FALSE, 0) : u \in 1..MaxTime}

\* the body of the loop of _migrate_backup_timestamps for record r: [rec, updated]
MigrateRecord_TrustsCount(r, k) ==
    IF ~k.exists \/ k.raises \/ ~k.info
    THEN [rec |-> r, updated |-> FALSE]
    ELSE LET stamped == r.last_backup = Never \/ r.last_backup > k.date
         IN  [rec |-> IF stamped THEN [r EXCEPT !.last_backup = k.date] ELSE r,
              updated |-> stamped]

MigrateRecord_KeepsLater(r, k) ==
    IF ~k.exists \/ k.raises \/ ~k.info
    THEN [rec |-> r, updated |-> FALSE]
    ELSE LET counted == k.count_ok /\ r.backup_count # k.count
             r1 == IF counted THEN [r EXCEPT !.backup_count = k.count] ELSE r
             stamped == r.last_backup = Never
         IN  [rec |-> IF stamped THEN [r1 EXCEPT !.last_backup = k.date] ELSE r1,
              updated |-> counted \/ stamped]

MigrateRecord(r, k) ==
    IF ~k.exists \/ k.raises \/ ~k.info
    THEN [rec |-> r, updated |-> FALSE]
    ELSE LET counted == k.count_ok /\ r.backup_count # k.count
             r1 == IF counted THEN [r EXCEPT !.backup_count = k.count] ELSE r
             stamped == r.last_backup = Never \/ r.last_backup > k.date
         IN  [rec |-> IF stamped THEN [r1 EXCEPT !.last_backup = k.date] ELSE r1,
              updated |-> counted \/ stamped]

RECURSIVE MigrateFrom(_, _)
\* the loop of _migrate_backup_timestamps from record i on, acc = [repos, updated]
MigrateFrom(acc, i) ==
    IF i > Len(acc.repos)
    THEN {acc}
    ELSE UNION {MigrateFrom([repos |-> [acc.repos EXCEPT ![i] = m.rec],
                             updated |-> acc.updated \/ m.updated], i + 1) :
                  m \in {MigrateRecord(acc.repos[i], k) : k \in LoadKinds}}

\* _migrate_backup_timestamps on a registry: [repos, saves]
MigrateBackupTimestamps(repos) ==
    {[repos |-> a.repos, saves |-> IF a.updated THEN 1 ELSE 0] :
        a \in MigrateFrom([repos |-> repos, updated |-> FALSE], 1)}

PathConfigUnder_Last(f) ==
    IF \E i \in DOMAIN watched_paths : watched_paths[i].path = RootOf(f)
    THEN CHOOSE i \in DOMAIN watched_paths :
            /\ watched_paths[i].path = RootOf(f)
            /\ \A j \in (i + 1)..Len(watched_paths) : watched_paths[j].path # RootOf(f)
    ELSE 0

\* the first path configuration the path is under, 0 if there is none
PathConfigUnder(f) ==
    IF \E i \in DOMAIN watched_paths : watched_paths[i].path = RootOf(f)
    THEN CHOOSE i \in DOMAIN watched_paths :
            /\ watched_paths[i].path = RootOf(f)
            /\ \A j \in 1..(i - 1) : watched_paths[j].path # RootOf(f)
    ELSE 0

MigrateRepoAccounts_Reresolves(repos) ==
    LET migrated(r) == PathConfigUnder(r.path) # 0
        fixed == [i \in DOMAIN repos |->
                    IF migrated(repos[i])
                    THEN [repos[i] EXCEPT !.account_username =
                                              watched_paths[PathConfigUnder(repos[i].path)].username]
                    ELSE repos[i]]
    IN  [repos |-> fixed,
         saves |-> IF \E i \in DOMAIN repos : migrated(repos[i]) THEN 1 ELSE 0]

\* _migrate_repo_accounts on a registry: [repos, saves]; a record without the key
\* account_username has None there
MigrateRepoAccounts(repos) ==
    LET migrated(r) == r.account_username \in {None, "unknown"} /\ PathConfigUnder(r.path) # 0
        fixed == [i \in DOMAIN repos |->
                    IF migrated(repos[i])
                    THEN [repos[i] EXCEPT !.account_username =
                                              watched_paths[PathConfigUnder(repos[i].path)].username]
                    ELSE repos[i]]
    IN  [repos |-> fixed,
         saves |-> IF \E i \in DOMAIN repos : migrated(repos[i]) THEN 1 ELSE 0]

\* load_state in a process started after the last handler ended: the outcomes
\* [repos, file, clock, ret, calls, loaded, saves] of loading the
\* snapshot, where saves = <<saves of the account pass, saves of the repair pass>>
LoadState ==
    LET accounts == MigrateRepoAccounts(state_file)
    IN  {[repos |-> <<>>, file |-> state_file, clock |-> now + 1, ret |-> None, calls |-> <<>>,
          loaded |-> FALSE, saves |-> <<0, 0>>]}   \* json.load raises
        \cup {[repos |-> m.repos,
               file |-> IF m.saves = 1 THEN m.repos
                        ELSE IF accounts.saves = 1 THEN accounts.repos ELSE state_file,
               clock |-> now + 1, ret |-> None, calls |-> <<>>,
               loaded |-> TRUE, saves |-> <<accounts.saves, m.saves>>] :
                 m \in MigrateBackupTimestamps(accounts.repos)}

\* Config.set_project_enabled(repo_name, enabled)
SetProjectEnabled(name, enabled) ==
    IF enabled THEN project_preferences \ {name} ELSE project_preferences \cup {name}

-----------------------------------------------------------------------------
(* The specification *)

-----------------------------------------------------------------------------
(* start and stop.  Their outcomes carry, besides [repos, file, clock,     *)
(* ret, calls], the service's flag, watchers and sweep thread.  A log      *)
(* entry about a watched root has the path <<root>>, one about the service *)
(* as a whole the path <<>>.                                               *)

Service == <<>>

RootPath(i) == <<watched_paths[i].path>>

\* how FolderWatcher.start can end: observing, not observing (its folder is not there), raising
WatcherStarts == {"running", "idle", "raise"}

\* _verify_all_accounts, is_authenticated answering auth[i] for path configuration i
VerifyAllAccounts_Any(auth) ==
    [ok |-> \E i \in DOMAIN watched_paths : auth[i],
     calls |-> [i \in DOMAIN watched_paths |->
                  Log(RootPath(i), "is_authenticated", IF auth[i] THEN "true" ELSE "false")]]

VerifyAllAccounts(auth) ==
    [ok |-> \A i \in DOMAIN watched_paths : auth[i],
     calls |-> [i \in DOMAIN watched_paths |->
                  Log(RootPath(i), "is_authenticated", IF auth[i] THEN "true" ELSE "false")]]

\* an outcome that leaves the service as it is
Idle(calls) ==
    [repos |-> tracked_repos, file |-> state_file, clock |-> now, ret |-> None, calls |-> calls,
     running |-> is_running, watchers |-> folder_watchers, thread |-> backup_thread]

MakeCallback_LastBound(i) == Len(watched_paths)

\* make_callback(path_config): the callback calls on_new_folder_detected with the path
\* configuration it was made for, kept here as its index
MakeCallback(i) == i

\* start_all_folder_watchers, watcher i ending as started[i]: [watchers, calls]
StartAllFolderWatchers(started) ==
    LET entry(i) == IF started[i] = "raise"
                    THEN <<>>
                    ELSE <<[path |-> watched_paths[i].path, running |-> started[i] = "running",
                            callback |-> MakeCallback(i)]>>
        all[i \in 0..Len(watched_paths)] ==
            IF i = 0
            THEN [watchers |-> folder_watchers, calls |-> <<>>]
            ELSE [watchers |-> all[i - 1].watchers \o entry(i),
                  calls |-> Append(all[i - 1].calls, Log(RootPath(i), "watcher_start", started[i]))]
    IN  all[Len(watched_paths)]

\* start(): validate answers valid, is_authenticated answers auth[i]
Start(valid, auth, started) ==
    IF is_running
    THEN {Idle(<<>>)}
    ELSE IF ~valid
    THEN {Idle(<<Log(Service, "validate", "false")>>)}
    ELSE LET verified == VerifyAllAccounts(auth)
             checked == <<Log(Service, "validate", "true")>> \o verified.calls
             watched == StartAllFolderWatchers(started)
         IN  IF ~verified.ok
             THEN {Idle(checked)}
             ELSE {[repos |-> sc.repos, file |-> sc.file, clock |-> sc.clock, ret |-> None,
                    calls |-> checked \o <<Log(Service, "is_running", "true"),
                                           Log(Service, "initial_scan_all", "called")>>
                                      \o sc.calls \o watched.calls
                                      \o <<Log(Service, "start_backup_loop", "called")>>,
                    running |-> TRUE, watchers |-> watched.watchers, thread |-> TRUE] :
                      sc \in InitialScanAll}

\* how backup_thread.join(timeout=10) can end, when the thread is alive
Joins == {"joined", "timeout"}

Stop_KeepsWatchers ==
    IF ~is_running
    THEN {Idle(<<>>)}
    ELSE {[repos |-> tracked_repos, file |-> tracked_repos, clock |-> now, ret |-> None,
           calls |-> <<Log(Service, "is_running", "false")>>
                         \o (IF backup_thread THEN <<Log(Service, "join", j)>> ELSE <<>>)
                         \o <<Log(Service, "save_state", "called")>>,
           running |-> FALSE,
           watchers |-> folder_watchers,
           thread |-> backup_thread /\ j = "timeout"] : j \in Joins}

\* stop()
Stop ==
    IF ~is_running
    THEN {Idle(<<>>)}
    ELSE {[repos |-> tracked_repos, file |-> tracked_repos, clock |-> now, ret |-> None,
           calls |-> <<Log(Service, "is_running", "false")>>
                         \o [k \in DOMAIN folder_watchers |->
                               Log(<<folder_watchers[k].path>>, "watcher_stop", "called")]
                         \o (IF backup_thread THEN <<Log(Service, "join", j)>> ELSE <<>>)
                         \o <<Log(Service, "save_state", "called")>>,
           running |-> FALSE,
           watchers |-> [k \in DOMAIN folder_watchers |-> [folder_watchers[k] EXCEPT !.running = FALSE]],
           thread |-> backup_thread /\ j = "timeout"] : j \in Joins}

Names == {NameOf(f) : f \in Folders}

\* the accounts an operator may name: the configured ones, none, and one that is not configured
\* the project names whose 'enabled' preference is set
ToggledNames == {Foo}

Accounts == {watched_paths[i].username : i \in DOMAIN watched_paths} \cup {None, "carol"}

\* what an outcome leaves behind: the registry, the snapshot file and the clock
Effects(outs) == {<<o.repos, o.file, o.clock>> : o \in outs}

\* a handler ends in one of the outcomes `outs`
Do(outs) ==
    \E e \in Effects(outs) :
        /\ e[3] <= MaxTime + 1
        /\ tracked_repos' = e[1]
        /\ state_file' = e[2]
        /\ now' = e[3]
        /\ UNCHANGED <<cfgVars, svcVars>>

\* no dict iterator is open: backup_all_repositories is not inside its for loop
NoIterator == [phase |-> "none", used |-> 0, seen |-> {}, began |-> {}]

\* the backup_loop threads there can be at one time
MaxLoops == 2

\* a Thread(target=backup_loop) that was never started or has returned
NoLoop == [at |-> "ended", used |-> 0, left |-> 0]

\* no thread is inside process_folder, inside a sync or past a create_repository call; no
\* backup_loop thread is alive, self.backup_thread is None, no stop() is waiting in join;
\* no watcher has an event thread, a folder in its watched_folders or a callback made
NoThreads ==
    [iter |-> NoIterator, processing |-> <<>>, syncing |-> <<>>, created |-> <<>>,
     loops |-> [k \in 1..MaxLoops |-> NoLoop], current |-> 0, stopping |-> FALSE,
     events |-> <<>>, watched_folders |-> {}, callbacks |-> {}]

\* __init__: is_running = False, folder_watchers = [], backup_thread = None
NotStarted ==
    /\ is_running = FALSE
    /\ folder_watchers = <<>>
    /\ backup_thread = FALSE
    /\ threads = NoThreads

\* the state after BackupService.__init__ with no state file: an empty registry
Init ==
    /\ tracked_repos = <<>>
    /\ state_file = <<>>
    /\ now = 1
    /\ project_preferences = {}
    /\ watched_paths = <<[path |-> "A", username |-> "alice"], [path |-> "B", username |-> "bob"]>>
    /\ world = <<(<<"A", Foo>>), (<<"B", Tmp>>)>>
    /\ NotStarted

Scan == Do(InitialScanAll)

NewFolder ==
    \E f \in Folders, i \in DOMAIN watched_paths, d \in FolderKinds :
        /\ RootOf(f) = watched_paths[i].path
        /\ Do(OnNewFolderDetected(f, i, d))

Add == \E f \in Folders, a \in Accounts, d \in FolderKinds : Do(AddRepository(f, a, d))

Remove == \E n \in Names : Do(RemoveRepository(n))

Delete ==
    \E n \in Names, g \in BOOLEAN, l \in BOOLEAN, e \in BOOLEAN :
        Do(DeleteRepositoryComplete(n, g, l, e))

Backup == \E n \in Names, d \in FolderKinds : Do(BackupRepositoryByName(n, d))

Force == \E n \in Names, d \in FolderKinds : Do(ForceBackup(n, d))

ForceAll == Do(ForceBackupAll)

Sweep == Do(BackupLoopPass)

Enable ==
    \E n \in ToggledNames, e \in BOOLEAN :
        /\ project_preferences' = SetProjectEnabled(n, e)
        /\ project_preferences' # project_preferences
        /\ UNCHANGED <<tracked_repos, state_file, now, watched_paths, world, svcVars>>

Next ==
    \/ Scan
    \/ NewFolder
    \/ Add
    \/ Remove
    \/ Delete
    \/ Backup
    \/ Force
    \/ ForceAll
    \/ Sweep
    \/ Enable

\* the process is started again: a new BackupService loads the snapshot
Restart == Do(LoadState)

Spec == Init /\ [][Next]_vars

\* the same service over two watched roots that each hold a folder of the same name
InitTwo ==
    /\ tracked_repos = <<>>
    /\ state_file = <<>>
    /\ now = 1
    /\ project_preferences = {}
    /\ watched_paths = <<[path |-> "A", username |-> "alice"], [path |-> "B", username |-> "bob"]>>
    /\ world = <<(<<"A", Foo>>), (<<"B", Foo>>)>>
    /\ NotStarted

SpecTwo == InitTwo /\ [][Next]_vars

NextRestart == Next \/ Restart

\* a handler of the service's lifecycle ends in one of the outcomes `outs`
DoService(outs) ==
    \E e \in {<<o.repos, o.file, o.clock, o.running, o.watchers, o.thread>> : o \in outs} :
        /\ e[3] <= MaxTime + 1
        /\ tracked_repos' = e[1]
        /\ state_file' = e[2]
        /\ now' = e[3]
        /\ is_running' = e[4]
        /\ folder_watchers' = e[5]
        /\ backup_thread' = e[6]
        /\ UNCHANGED <<cfgVars, threads>>

StartService ==
    \E valid \in BOOLEAN, auth \in [DOMAIN watched_paths -> BOOLEAN],
       started \in [DOMAIN watched_paths -> WatcherStarts] :
        DoService(Start(valid, auth, started))

StopService == DoService(Stop)

\* backup_loop: a pass while the flag is set
LoopPass ==
    /\ backup_thread
    /\ is_running
    /\ Do(BackupLoopPass)

\* backup_loop: the thread sees the flag cleared and ends
LoopExit ==
    /\ backup_thread
    /\ ~is_running
    /\ backup_thread' = FALSE
    /\ UNCHANGED <<tracked_repos, state_file, now, cfgVars, is_running, folder_watchers, threads>>

\* a running watcher reports a folder under its root that it does not ignore
WatcherEvent ==
    \E f \in Folders, k \in DOMAIN folder_watchers, i \in DOMAIN watched_paths, d \in Present :
        /\ folder_watchers[k].running
        /\ folder_watchers[k].path = RootOf(f)
        /\ i = folder_watchers[k].callback
        /\ ~ShouldIgnoreFolder(NameOf(f))
        /\ IsValidProject(d)
        /\ Do(OnNewFolderDetected(f, i, d))

\* add_repository asked of the running service
AddRunning ==
    /\ is_running
    /\ Add

NextService == StartService \/ StopService \/ LoopPass \/ LoopExit \/ WatcherEvent \/ AddRunning

SpecService == Init /\ [][NextService]_vars

SpecRestart == Init /\ [][NextRestart]_vars

\* the scan, the operator adding and removing projects, and the sweep
NextManual == Scan \/ Add \/ Remove \/ Sweep

SpecManual == Init /\ [][NextManual]_vars

\* the usernames an operator gives a watched path when editing the configuration file
EditedAccounts == {"carol"}

\* the operator edits the account of one watched path; the service reads the
\* configuration when it is constructed
EditConfig ==
    \E i \in DOMAIN watched_paths, u \in EditedAccounts :
        /\ watched_paths[i].username # u
        /\ watched_paths' = [watched_paths EXCEPT ![i].username = u]
        /\ UNCHANGED <<tracked_repos, state_file, now, project_preferences, world, svcVars>>

NextConfig == Scan \/ NewFolder \/ Sweep \/ Restart \/ EditConfig

\* the service with restarts and edits of the watched-path configuration
SpecConfig == Init /\ [][NextConfig]_vars

-----------------------------------------------------------------------------
(* What the claims are stated with.  A claim about a handler says: in      *)
(* every reachable state, for every input, every outcome the handler can   *)
(* end in satisfies the claim.  The actions of Next take exactly these     *)
(* outcomes.                                                               *)

PathConfigs == {watched_paths[i] : i \in DOMAIN watched_paths}

Untracked == {f \in Folders : ~IsTracked(tracked_repos, f)}

RecordOf(repos, f) == repos[IndexOf(repos, f)]

\* the position of the first entry of that call on folder f in the log, 0 if there is none
Position(log, f, call) ==
    IF Called(log, f, call)
    THEN CHOOSE i \in DOMAIN log :
            /\ log[i].call = call /\ log[i].path = f
            /\ \A j \in 1..(i - 1) : ~(log[j].call = call /\ log[j].path = f)
    ELSE 0

\* process_folder(f, pc, is_initial_scan) on the current registry, the folder found as d
ProcessFolderNow(f, d, pc, is_initial_scan) ==
    ProcessFolder([repos |-> tracked_repos, disk |-> d, calls |-> <<>>], f, pc, is_initial_scan, now)

\* every outcome of process_folder on the current registry, whoever calls it
ProcessFolderCalls ==
    UNION {{[f |-> x[1], before |-> x[2], scan |-> x[3], pc |-> x[4], ret |-> o.ret,
             repos |-> o.st.repos, calls |-> o.st.calls, disk |-> o.st.disk] :
               o \in ProcessFolderNow(x[1], x[2], x[4], x[3])} :
           x \in Folders \X FolderKinds \X BOOLEAN \X PathConfigs}

\* the outcomes of the handlers that call process_folder for one folder:
\* add_repository and on_new_folder_detected
SingleFolderCalls ==
    UNION {{[f |-> x[1], before |-> x[2], o |-> o] :
               o \in UNION ({AddRepository(x[1], a, x[2]) : a \in Accounts}
                            \cup {OnNewFolderDetected(x[1], i, x[2]) :
                                    i \in {j \in DOMAIN watched_paths :
                                             watched_paths[j].path = RootOf(x[1])}})} :
           x \in Folders \X FolderKinds}

\* the working state a sweep pass starts from
SweepStart == [repos |-> tracked_repos, calls |-> <<>>, successful |-> 0, failed |-> 0, skipped |-> 0]

\* record i is enabled in the configuration
Enabled(i) == GetProjectEnabled(project_preferences, tracked_repos[i].name)

-----------------------------------------------------------------------------
(* C1: processing a folder whose path is already in the registry is a      *)
(* no-op.  process_folder returns True, calls neither init_repo nor        *)
(* create_repository, and leaves the number of records, every field of     *)
(* every record and the folder as they were; add_repository and the        *)
(* watcher callback on such a folder return True with the registry as it   *)
(* was.                                                                    *)
C1_SecondProcessIsNoOp ==
    /\ \A c \in ProcessFolderCalls :
          IsTracked(tracked_repos, c.f) =>
              /\ c.ret = TRUE
              /\ c.repos = tracked_repos
              /\ c.disk = c.before
              /\ ~Called(c.calls, c.f, "init_repo")
              /\ ~Called(c.calls, c.f, "create_repository")
              /\ ~Called(c.calls, c.f, "insert")
    /\ \A c \in SingleFolderCalls :
          (IsTracked(tracked_repos, c.f) /\ Called(c.o.calls, c.f, "process_folder")) =>
              c.o.ret = TRUE /\ c.o.repos = tracked_repos

\* a folder is tracked, with a backup already counted, and a handler can still run on it
C1_Witness ==
    /\ now <= MaxTime
    /\ \E i \in DOMAIN tracked_repos :
          tracked_repos[i].backup_count = 1 /\ tracked_repos[i].status = "synced"

(* C2: a folder that does not meet the validator's criteria is never added *)
(* to the registry.  process_folder, in a scan or not, add_repository and  *)
(* the watcher callback leave the set of tracked paths as it was when the  *)
(* folder fails is_valid_project; every folder a scan adds was answered    *)
(* true by is_git_repo or by is_valid_project; and no other handler adds a *)
(* record.  This holds in every reachable state, so for every sequence of  *)
(* handlers and however often a folder is processed again.                 *)
C2_InvalidNeverAdded ==
    /\ \A c \in ProcessFolderCalls :
          ~IsValidProject(c.before) =>
              /\ c.repos = tracked_repos
              /\ ~IsTracked(tracked_repos, c.f) => c.ret = FALSE /\ ~Called(c.calls, c.f, "insert")
    /\ \A c \in SingleFolderCalls :
          (~IsValidProject(c.before) /\ ~IsTracked(tracked_repos, c.f)) =>
              c.o.ret = FALSE /\ c.o.repos = tracked_repos /\ c.o.file = state_file
    /\ \A o \in InitialScanAll :
          \A f \in Paths(o.repos) \ Paths(tracked_repos) :
              \/ Answered(o.calls, f, "is_git_repo", "true")
              \/ Answered(o.calls, f, "is_valid_project", "true")
    /\ \A o \in BackupAllRepositories : Paths(o.repos) \subseteq Paths(tracked_repos)
    /\ \A n \in Names, d \in FolderKinds :
          \A o \in BackupRepositoryByName(n, d) \cup ForceBackup(n, d) :
              Paths(o.repos) \subseteq Paths(tracked_repos)

\* the clock has run out, so handlers have processed folders, and nothing is tracked
C2_Witness ==
    /\ now = MaxTime + 1
    /\ tracked_repos = <<>>
    /\ state_file = <<>>

(* C3: for a folder that is not under version control and passes the       *)
(* validator, when init_repo and create_repository both succeed,           *)
(* process_folder returns True and adds exactly one record, with status    *)
(* synced, backup_count 1 and has_remote true; init_repo is called before  *)
(* create_repository, and the record is inserted only after                *)
(* create_repository reported success.                                     *)
C3_NewRepositoryTracked ==
    \A c \in ProcessFolderCalls :
        (~IsTracked(tracked_repos, c.f) /\ ~IsGitRepo(c.before) /\ IsValidProject(c.before)) =>
            LET created == \/ Answered(c.calls, c.f, "create_repository", "created")
                           \/ Answered(c.calls, c.f, "create_repository", "exists")
                ok == Answered(c.calls, c.f, "init_repo", "true") /\ created
            IN  /\ ok =>
                      /\ c.ret = TRUE
                      /\ Len(c.repos) = Len(tracked_repos) + 1
                      /\ SubSeq(c.repos, 1, Len(tracked_repos)) = tracked_repos
                      /\ Cardinality({i \in DOMAIN c.repos : c.repos[i].path = c.f}) = 1
                      /\ RecordOf(c.repos, c.f).status = "synced"
                      /\ RecordOf(c.repos, c.f).backup_count = 1
                      /\ RecordOf(c.repos, c.f).has_remote = TRUE
                      /\ 0 < Position(c.calls, c.f, "init_repo")
                      /\ Position(c.calls, c.f, "init_repo") < Position(c.calls, c.f, "create_repository")
                      /\ Position(c.calls, c.f, "create_repository") < Position(c.calls, c.f, "insert")
                /\ Called(c.calls, c.f, "create_repository") => Answered(c.calls, c.f, "init_repo", "true")
                /\ Called(c.calls, c.f, "insert") => ok
                /\ ~ok => c.ret = FALSE /\ c.repos = tracked_repos

\* a record as _initialize_new_repository leaves it: synced, one backup, made at its creation
C3_Witness ==
    \E i \in DOMAIN tracked_repos :
        /\ tracked_repos[i].status = "synced"
        /\ tracked_repos[i].backup_count = 1
        /\ tracked_repos[i].has_remote = TRUE
        /\ tracked_repos[i].last_backup = tracked_repos[i].created_at
        /\ tracked_repos[i].last_check = Never

(* C4: a version-controlled folder that has a remote is registered by the  *)
(* initial scan with status tracked, backup_count 0 and no last_backup,    *)
(* and the scan makes no has_uncommitted_changes and no sync_repository    *)
(* call on it.  When the same folder is first processed by the watcher     *)
(* callback or by add_repository, the backup primitive runs right after    *)
(* the record is inserted.                                                 *)
C4_ScanRegistersOnly ==
    /\ \A c \in ProcessFolderCalls :
          (~IsTracked(tracked_repos, c.f) /\ HasRemote(c.before)) =>
              /\ c.ret = TRUE
              /\ RecordOf(c.repos, c.f).backup_count = 0
              /\ RecordOf(c.repos, c.f).last_backup = Never
              /\ RecordOf(c.repos, c.f).status = "tracked"
              /\ c.scan => /\ ~Called(c.calls, c.f, "has_uncommitted_changes")
                           /\ ~Called(c.calls, c.f, "sync_repository")
                           /\ c.disk = c.before
              /\ ~c.scan => /\ 0 < Position(c.calls, c.f, "insert")
                            /\ Position(c.calls, c.f, "has_uncommitted_changes")
                                   = Position(c.calls, c.f, "insert") + 1
                            /\ Answered(c.calls, c.f, "has_uncommitted_changes", "true")
                                   => Called(c.calls, c.f, "sync_repository")
    /\ \A o \in InitialScanAll :
          \A f \in Paths(o.repos) \ Paths(tracked_repos) :
              Answered(o.calls, f, "has_remote", "true") =>
                  /\ RecordOf(o.repos, f).status = "tracked"
                  /\ RecordOf(o.repos, f).backup_count = 0
                  /\ RecordOf(o.repos, f).last_backup = Never
                  /\ ~Called(o.calls, f, "has_uncommitted_changes")
                  /\ ~Called(o.calls, f, "sync_repository")
    /\ \A c \in SingleFolderCalls :
          (~IsTracked(tracked_repos, c.f) /\ HasRemote(c.before)
               /\ Called(c.o.calls, c.f, "process_folder")) =>
              /\ IsTracked(c.o.repos, c.f)
              /\ Position(c.o.calls, c.f, "has_uncommitted_changes")
                     = Position(c.o.calls, c.f, "insert") + 1

\* a record as the registration of a repository with a remote leaves it, in the snapshot too
C4_Witness ==
    \E i \in DOMAIN tracked_repos :
        /\ tracked_repos[i].status = "tracked"
        /\ tracked_repos[i].backup_count = 0
        /\ tracked_repos[i].last_backup = Never
        /\ tracked_repos[i].remote_url = "origin-url"
        /\ state_file = tracked_repos

(* C5: when a sweep pass finds the folder of an enabled record there and   *)
(* has_uncommitted_changes answers false, the pass calls no                *)
(* sync_repository on it, sets status to no_changes, and leaves            *)
(* backup_count and last_backup as they were; a folder with nothing        *)
(* pending never gets a sync_repository call.                              *)
C5_NoChangesNoBackup ==
    /\ \A o \in BackupAllRepositories :
          /\ Len(o.repos) = Len(tracked_repos)
          /\ \A i \in DOMAIN tracked_repos :
                LET f == tracked_repos[i].path
                IN  (Enabled(i) /\ Answered(o.calls, f, "path_exists", "true")
                         /\ Answered(o.calls, f, "has_uncommitted_changes", "false")) =>
                        /\ ~Called(o.calls, f, "sync_repository")
                        /\ o.repos[i].status = "no_changes"
                        /\ o.repos[i].backup_count = tracked_repos[i].backup_count
                        /\ o.repos[i].last_backup = tracked_repos[i].last_backup
                        /\ o.repos[i] = [tracked_repos[i] EXCEPT !.status = "no_changes",
                                                                 !.last_check = now]
    /\ \A i \in DOMAIN tracked_repos, d \in FolderKinds :
          (Enabled(i) /\ d.exists /\ ~d.dirty) =>
              \A a \in SweepRecordOn(SweepStart, i, d, project_preferences, now) :
                  /\ ~Called(a.calls, tracked_repos[i].path, "sync_repository")
                  /\ a.repos[i].backup_count = tracked_repos[i].backup_count
                  /\ a.repos[i].last_backup = tracked_repos[i].last_backup
                  /\ a.successful = 0

\* a record a pass found unchanged: checked, after a backup that is older than the check
C5_Witness ==
    \E i \in DOMAIN tracked_repos :
        /\ tracked_repos[i].status = "no_changes"
        /\ tracked_repos[i].last_check = now - 1
        /\ tracked_repos[i].backup_count = 1
        /\ tracked_repos[i].last_backup < tracked_repos[i].last_check
        /\ state_file = tracked_repos

(* C6: when a sweep pass finds the folder of an enabled record there with  *)
(* pending changes and sync_repository succeeds, backup_count goes up by   *)
(* one, last_backup is set to the time of the pass and status becomes      *)
(* synced, whatever the status was.                                        *)
C6_PushCounted ==
    /\ \A o \in BackupAllRepositories :
          /\ Len(o.repos) = Len(tracked_repos)
          /\ \A i \in DOMAIN tracked_repos :
                LET f == tracked_repos[i].path
                IN  (Enabled(i) /\ Answered(o.calls, f, "path_exists", "true")
                         /\ Answered(o.calls, f, "has_uncommitted_changes", "true")
                         /\ Answered(o.calls, f, "sync_repository", "true")) =>
                        /\ o.repos[i].backup_count = tracked_repos[i].backup_count + 1
                        /\ o.repos[i].last_backup = now
                        /\ o.repos[i].last_backup # Never
                        /\ o.repos[i].status = "synced"
                        /\ o.ret.successful >= 1
    /\ \A i \in DOMAIN tracked_repos, d \in FolderKinds :
          (Enabled(i) /\ d.exists /\ d.dirty) =>
              \E a \in SweepRecordOn(SweepStart, i, d, project_preferences, now) :
                  /\ a.repos[i].status = "synced"
                  /\ a.repos[i].backup_count = tracked_repos[i].backup_count + 1

\* a record registered without a backup, then pushed once by a pass
C6_Witness ==
    \E i \in DOMAIN tracked_repos :
        /\ tracked_repos[i].status = "synced"
        /\ tracked_repos[i].backup_count = 1
        /\ tracked_repos[i].last_backup = now - 1
        /\ tracked_repos[i].last_check = tracked_repos[i].last_backup
        /\ tracked_repos[i].created_at < tracked_repos[i].last_backup

(* C7: when the backup of an enabled record whose folder is there fails in *)
(* a sweep pass (sync_repository answers false, or it or                   *)
(* has_uncommitted_changes raises), status becomes failed, last_error is   *)
(* the message of the failure, and backup_count and last_backup are as     *)
(* they were.                                                              *)
C7_FailureRecorded ==
    \A o \in BackupAllRepositories :
        /\ Len(o.repos) = Len(tracked_repos)
        /\ \A i \in DOMAIN tracked_repos :
              LET f == tracked_repos[i].path
                  refused == Answered(o.calls, f, "sync_repository", "false")
                  raised == \/ Answered(o.calls, f, "sync_repository", "raise")
                            \/ Answered(o.calls, f, "has_uncommitted_changes", "raise")
              IN  (Enabled(i) /\ Answered(o.calls, f, "path_exists", "true")
                       /\ (refused \/ raised)) =>
                      /\ o.repos[i].status = "failed"
                      /\ o.repos[i].last_error = (IF refused THEN "Push failed" ELSE "exception")
                      /\ o.repos[i].backup_count = tracked_repos[i].backup_count
                      /\ o.repos[i].last_backup = tracked_repos[i].last_backup
                      /\ o.ret.failed >= 1

\* a record whose push a pass saw refused
C7_Witness ==
    \E i \in DOMAIN tracked_repos :
        /\ tracked_repos[i].status = "failed"
        /\ tracked_repos[i].last_error = "Push failed"
        /\ tracked_repos[i].last_check = now - 1
        /\ tracked_repos[i].last_backup # tracked_repos[i].last_check

(* C8: in every sweep pass, every enabled record whose folder is found     *)
(* there gets its last_check set to the time of the pass, exactly once,    *)
(* whether the pass leaves it synced, no_changes or failed.                *)
C8_LastCheckStamped ==
    /\ \A o \in BackupAllRepositories :
          /\ Len(o.repos) = Len(tracked_repos)
          /\ \A i \in DOMAIN tracked_repos :
                LET f == tracked_repos[i].path
                IN  (Enabled(i) /\ Answered(o.calls, f, "path_exists", "true")) =>
                        /\ CountCalls(o.calls, f, "last_check") = 1
                        /\ o.repos[i].last_check = now
                        /\ o.repos[i].last_check > tracked_repos[i].last_check
                        /\ o.repos[i].status \in {"synced", "no_changes", "failed"}
    /\ \A i \in DOMAIN tracked_repos, d \in FolderKinds :
          (Enabled(i) /\ d.exists) =>
              \A st \in {"synced", "no_changes", "failed"} :
                  ((st = "synced" => d.dirty) /\ (st = "no_changes" => ~d.dirty)) =>
                      \E a \in SweepRecordOn(SweepStart, i, d, project_preferences, now) :
                          a.repos[i].status = st /\ a.repos[i].last_check = now

\* a record the last pass checked and found failing, after an earlier backup
C8_Witness ==
    \E i \in DOMAIN tracked_repos :
        /\ tracked_repos[i].last_check = now - 1
        /\ tracked_repos[i].last_check # Never
        /\ tracked_repos[i].status = "failed"
        /\ tracked_repos[i].last_error = "exception"
        /\ tracked_repos[i].backup_count = 1

(* C9: for a record whose project is disabled, a sweep pass attempts no    *)
(* sync, still sets last_check to the time of the pass, changes no other   *)
(* field, and counts the record as skipped and not as failed.              *)
C9_DisabledStillChecked ==
    \A o \in BackupAllRepositories :
        /\ Len(o.repos) = Len(tracked_repos)
        /\ \A i \in DOMAIN tracked_repos :
              LET f == tracked_repos[i].path
              IN  ~Enabled(i) =>
                      /\ ~Called(o.calls, f, "has_uncommitted_changes")
                      /\ ~Called(o.calls, f, "sync_repository")
                      /\ o.repos[i] = [tracked_repos[i] EXCEPT !.last_check = now]
                      /\ o.ret.skipped >= 1
                      /\ (\A j \in DOMAIN tracked_repos : ~Enabled(j)) => o.ret.failed = 0

(* C10: when a sweep pass finds the folder of an enabled record gone, it   *)
(* sets the status to missing and calls neither has_uncommitted_changes    *)
(* nor sync_repository on it; the record stays.  No outcome of a sweep     *)
(* pass, of the initial scan, of the watcher callback or of add_repository *)
(* lacks a path that was tracked; remove_repository and                    *)
(* delete_repository_complete take exactly the named record out.           *)
C10_MissingKept ==
    /\ \A o \in BackupAllRepositories :
          /\ Paths(o.repos) = Paths(tracked_repos)
          /\ Len(o.repos) = Len(tracked_repos)
          /\ \A i \in DOMAIN tracked_repos :
                LET f == tracked_repos[i].path
                IN  (Enabled(i) /\ Answered(o.calls, f, "path_exists", "false")) =>
                        /\ o.repos[i] = [tracked_repos[i] EXCEPT !.status = "missing"]
                        /\ ~Called(o.calls, f, "has_uncommitted_changes")
                        /\ ~Called(o.calls, f, "sync_repository")
    /\ \A i \in DOMAIN tracked_repos, d \in FolderKinds :
          (Enabled(i) /\ ~d.exists) =>
              \A a \in SweepRecordOn(SweepStart, i, d, project_preferences, now) :
                  /\ Len(a.repos) = Len(tracked_repos)
                  /\ a.repos[i].status \in {"missing", "error"}
                  /\ a.calls \in {<<Log(tracked_repos[i].path, "path_exists", "false")>>,
                                  <<Log(tracked_repos[i].path, "path_exists", "raise")>>}
    /\ \A o \in InitialScanAll : Paths(tracked_repos) \subseteq Paths(o.repos)
    /\ \A c \in SingleFolderCalls : Paths(tracked_repos) \subseteq Paths(c.o.repos)
    /\ \A n \in Names :
          LET left == IF FirstNamed(tracked_repos, n) = 0
                      THEN tracked_repos
                      ELSE Del(tracked_repos, FirstNamed(tracked_repos, n))
          IN  /\ \A o \in RemoveRepository(n) : o.repos = left
              /\ \A x \in BOOLEAN \X BOOLEAN \X BOOLEAN :
                    \A o \in DeleteRepositoryComplete(n, x[1], x[2], x[3]) : o.repos = left

\* a record a pass marked missing is still in the registry and in the snapshot
C10_Witness ==
    \E i \in DOMAIN tracked_repos :
        /\ tracked_repos[i].status = "missing"
        /\ tracked_repos[i].last_check = Never
        /\ state_file = tracked_repos

(* C11: a failure or an exception while a sweep pass handles one record    *)
(* stays with that record, which gets status failed or error and a         *)
(* last_error.  Every enabled record is looked at once in the pass,        *)
(* whatever happened to the others; a record that did not fail is left as  *)
(* a pass over it alone can leave it; every record is counted or marked    *)
(* missing; the pass ends by saving the registry; and next to a record     *)
(* that raised, any other enabled record can still be checked or marked.   *)
C11_FailureConfined ==
    LET outs == BackupAllRepositories
        n == Len(tracked_repos)
        path(i) == tracked_repos[i].path
    IN  /\ \A o \in outs :
              LET failedOn(i) == \/ Answered(o.calls, path(i), "path_exists", "raise")
                                 \/ Answered(o.calls, path(i), "has_uncommitted_changes", "raise")
                                 \/ Answered(o.calls, path(i), "sync_repository", "raise")
                                 \/ Answered(o.calls, path(i), "sync_repository", "false")
                  missing == {i \in 1..n : Answered(o.calls, path(i), "path_exists", "false")}
              IN  /\ Len(o.repos) = n
                  /\ o.file = o.repos
                  /\ o.ret.successful + o.ret.failed + o.ret.skipped + Cardinality(missing) = n
                  /\ o.ret.failed = Cardinality({i \in 1..n : failedOn(i)})
                  /\ \A i \in 1..n :
                        /\ Enabled(i) => CountCalls(o.calls, path(i), "path_exists") = 1
                        /\ failedOn(i) => /\ o.repos[i].status \in {"failed", "error"}
                                          /\ o.repos[i].last_error # None
        /\ \A i \in 1..n :
              LET alone == {a.repos[i] : a \in SweepRecord(SweepStart, i, project_preferences, now)}
              IN  \A o \in outs : o.repos[i] \in alone
        /\ \A i \in 1..n, j \in 1..n :
              (i # j /\ Enabled(i) /\ Enabled(j)) =>
                  \E o \in outs :
                      /\ o.repos[i].status = "error"
                      /\ o.repos[j].last_check = now
                      /\ o.file = o.repos

\* the first record raised in the pass that pushed the second; both are in the snapshot
C11_Witness ==
    /\ Len(tracked_repos) = 2
    /\ tracked_repos[1].status = "error"
    /\ tracked_repos[1].last_error = "exception"
    /\ tracked_repos[1].created_at = now - 2
    /\ tracked_repos[1].last_check = Never
    /\ tracked_repos[2].status = "synced"
    /\ tracked_repos[2].last_check = now - 1
    /\ state_file = tracked_repos

(* C12: after the snapshot is loaded, every record whose folder is there   *)
(* and whose commit history is readable (get_last_commit_info and          *)
(* _get_commit_count both answer) has backup_count equal to the actual     *)
(* commit count.  When the repair pass changed a record it saves the       *)
(* registry once, and the snapshot then holds the correction; when it      *)
(* changed nothing it saves nothing.                                       *)
C12_CountRepaired ==
    LET base == MigrateRepoAccounts(state_file)
    IN  /\ \A i \in DOMAIN state_file, k \in LoadKinds :
              (k.exists /\ ~k.raises /\ k.info /\ k.count_ok) =>
                  LET m == MigrateRecord(base.repos[i], k)
                  IN  /\ m.rec.backup_count = k.count
                      /\ m.updated = (m.rec # base.repos[i])
                      /\ base.repos[i].backup_count # k.count => m.updated
        /\ \A o \in LoadState :
              o.loaded =>
                  /\ Len(o.repos) = Len(state_file)
                  /\ \A i \in DOMAIN state_file :
                        o.repos[i] \in {MigrateRecord(base.repos[i], k).rec : k \in LoadKinds}
                  /\ o.repos # base.repos => o.saves[2] = 1 /\ o.file = o.repos
                  /\ o.repos = base.repos => o.saves[2] = 0 /\ o.file = state_file

\* a record registered without a backup whose count the load set to the two commits found
C12_Witness ==
    \E i \in DOMAIN tracked_repos :
        /\ tracked_repos[i].status = "tracked"
        /\ tracked_repos[i].backup_count = 2
        /\ state_file = tracked_repos

(* C13: on load, for a record whose folder is there and has a last commit: *)
(* a stored last_backup later than the last commit's time is replaced by   *)
(* that time, an absent last_backup is set to it, and a stored last_backup *)
(* that is not later is left as it is.  Nothing but last_backup and        *)
(* backup_count is changed.                                                *)
C13_TimestampRepaired ==
    LET base == MigrateRepoAccounts(state_file)
    IN  /\ \A i \in DOMAIN state_file, k \in LoadKinds :
              LET r == base.repos[i]
                  m == MigrateRecord(r, k).rec
              IN  /\ (k.exists /\ ~k.raises /\ k.info) =>
                        /\ r.last_backup = Never => m.last_backup = k.date
                        /\ (r.last_backup # Never /\ r.last_backup > k.date) => m.last_backup = k.date
                        /\ (r.last_backup # Never /\ r.last_backup <= k.date) =>
                               m.last_backup = r.last_backup
                        /\ m.last_backup # Never /\ m.last_backup <= k.date
                  /\ ~(k.exists /\ ~k.raises /\ k.info) => m = r
                  /\ m = [r EXCEPT !.last_backup = m.last_backup, !.backup_count = m.backup_count]
        /\ \A o \in LoadState :
              o.loaded =>
                  \A i \in DOMAIN state_file :
                      o.repos[i].last_backup
                          \in {MigrateRecord(base.repos[i], k).rec.last_backup : k \in LoadKinds}

\* a record registered without a backup whose last_backup the load set from the last commit
C13_Witness ==
    \E i \in DOMAIN tracked_repos :
        /\ tracked_repos[i].status = "tracked"
        /\ tracked_repos[i].last_backup # Never
        /\ tracked_repos[i].last_check = Never
        /\ now = tracked_repos[i].created_at + 2

(* C14: delete_repository_complete on a tracked project always ends with   *)
(* remove_repository, after the remote deletion and the local deletion it  *)
(* was asked for, whether those succeeded, failed or raised: the result    *)
(* has tracking_removed true and the first record of that name is gone     *)
(* from the registry and the snapshot.  When the remote deletion was asked *)
(* for and did not succeed, github_deleted is false and errors is not      *)
(* empty.                                                                  *)
C14_TrackingRemovedLast ==
    \A n \in Names, x \in BOOLEAN \X BOOLEAN \X BOOLEAN :
        LET i == FirstNamed(tracked_repos, n)
            f == tracked_repos[i].path
            outs == DeleteRepositoryComplete(n, x[1], x[2], x[3])
        IN  i # 0 =>
              /\ \A o \in outs :
                    /\ o.calls # <<>>
                    /\ o.calls[Len(o.calls)] = Log(f, "remove_repository", "true")
                    /\ CountCalls(o.calls, f, "remove_repository") = 1
                    /\ Called(o.calls, f, "delete_repository") =>
                          /\ x[1]
                          /\ Position(o.calls, f, "delete_repository") = 1
                    /\ Called(o.calls, f, "rmtree") =>
                          /\ x[2] /\ x[3]
                          /\ Position(o.calls, f, "rmtree") < Position(o.calls, f, "remove_repository")
                          /\ Position(o.calls, f, "rmtree") > Position(o.calls, f, "delete_repository")
                    /\ (x[2] /\ x[3]) => Called(o.calls, f, "rmtree")
                    /\ o.ret.tracking_removed = TRUE
                    /\ o.repos = Del(tracked_repos, i)
                    /\ o.file = o.repos
                    /\ ~IsTracked(o.repos, f)
                    /\ (x[1] /\ ~Answered(o.calls, f, "delete_repository", "true")) =>
                          /\ o.ret.github_deleted = FALSE
                          /\ Len(o.ret.errors) >= 1
                    /\ o.ret.github_deleted = Answered(o.calls, f, "delete_repository", "true")
                    /\ o.ret.local_deleted = Answered(o.calls, f, "rmtree", "done")
              /\ x[1] => \E o \in outs : o.ret.github_deleted = FALSE /\ o.ret.errors # <<>>

\* of the two records the scan made, the first is gone and the second is all the snapshot holds
C14_Witness ==
    /\ Len(tracked_repos) = 1
    /\ tracked_repos[1].path = world[2]
    /\ tracked_repos[1].created_at = 1
    /\ tracked_repos[1].status = "tracked"
    /\ state_file = tracked_repos
    /\ now = 2

(* C15: remove_repository touches tracking only: it makes no               *)
(* delete_repository and no rmtree call.  When it returns True it has      *)
(* taken out exactly one record, the first in registry order with that     *)
(* name, left every other record as it was, others of the same name        *)
(* included, and saved the registry.  When no record has the name it       *)
(* returns False and changes neither the registry nor the snapshot.        *)
C15_RemoveTrackingOnly ==
    \A n \in Names :
        LET named == {i \in DOMAIN tracked_repos : tracked_repos[i].name = n}
        IN  \A o \in RemoveRepository(n) :
                /\ o.calls = <<>>
                /\ o.clock = now
                /\ named = {} => /\ o.ret = FALSE
                                 /\ o.repos = tracked_repos
                                 /\ o.file = state_file
                /\ named # {} =>
                      LET i == CHOOSE k \in named : \A j \in named : k <= j
                      IN  /\ o.ret = TRUE
                          /\ Len(o.repos) = Len(tracked_repos) - 1
                          /\ o.repos = SubSeq(tracked_repos, 1, i - 1)
                                           \o SubSeq(tracked_repos, i + 1, Len(tracked_repos))
                          /\ \A j \in named \ {i} : o.repos[j - 1] = tracked_repos[j]
                          /\ o.file = o.repos

\* two records of one name were swept together; the first was removed, the second is as it was
C15_Witness ==
    /\ Len(tracked_repos) = 1
    /\ tracked_repos[1].path = world[2]
    /\ tracked_repos[1].name = NameOf(world[1])
    /\ tracked_repos[1].created_at = 1
    /\ tracked_repos[1].last_check = 2
    /\ state_file = tracked_repos
    /\ now = 3

(* C16: start() fails closed.  On a service that is not running, when      *)
(* the configuration does not validate or is_authenticated is false for    *)
(* any watched path, start leaves the service not running and changes      *)
(* nothing: no initial scan, no watcher started, no backup loop, registry  *)
(* and snapshot as they were.  When it does start, is_authenticated has    *)
(* been asked once for every watched path before the scan and before any   *)
(* folder is processed.                                                    *)
C16_StartFailsClosed ==
    \A valid \in BOOLEAN, auth \in [DOMAIN watched_paths -> BOOLEAN],
       started \in [DOMAIN watched_paths -> WatcherStarts] :
        ~is_running =>
            \A o \in Start(valid, auth, started) :
                LET scanned == {k \in DOMAIN o.calls :
                                   \/ o.calls[k].call \in {"initial_scan_all", "watcher_start",
                                                           "start_backup_loop"}
                                   \/ Len(o.calls[k].path) = 2}
                IN  /\ (~valid \/ \E i \in DOMAIN watched_paths : ~auth[i]) =>
                          /\ o.running = FALSE
                          /\ scanned = {}
                          /\ o.watchers = folder_watchers
                          /\ o.thread = backup_thread
                          /\ o.repos = tracked_repos
                          /\ o.file = state_file
                          /\ o.clock = now
                    /\ o.running =>
                          /\ valid
                          /\ \A i \in DOMAIN watched_paths : auth[i]
                          /\ Called(o.calls, Service, "initial_scan_all")
                          /\ Called(o.calls, Service, "start_backup_loop")
                          /\ o.thread
                    /\ \A i \in DOMAIN watched_paths :
                          /\ scanned # {} =>
                                /\ CountCalls(o.calls, RootPath(i), "is_authenticated") = 1
                                /\ \A k \in scanned :
                                      Position(o.calls, RootPath(i), "is_authenticated") < k
                          /\ valid => Called(o.calls, RootPath(i), "is_authenticated")

\* a service that ran, tracked a folder and was stopped: asked to start with the second
\* account not authenticated, it stays stopped
C16_Witness ==
    /\ ~is_running
    /\ ~backup_thread
    /\ tracked_repos # <<>>
    /\ Len(folder_watchers) = Len(watched_paths)
    /\ \A o \in Start(TRUE, [i \in DOMAIN watched_paths |-> i = 1],
                      [i \in DOMAIN watched_paths |-> "running"]) :
          /\ ~o.running
          /\ Answered(o.calls, RootPath(2), "is_authenticated", "false")
          /\ Answered(o.calls, RootPath(1), "is_authenticated", "true")

(* C17: stop() on a running service always returns, the wait for the sweep *)
(* thread being a bounded join, and does its steps in this order: the flag *)
(* is cleared, every watcher is stopped, the sweep thread is joined, the   *)
(* registry is saved.  On return the service is not running, no watcher is *)
(* running and the snapshot is the registry.  stop() on a service that is  *)
(* not running does nothing.                                               *)
C17_StopOrdered ==
    LET outs == Stop
    IN  /\ outs # {}
        /\ ~is_running => outs = {Idle(<<>>)}
        /\ is_running =>
              /\ backup_thread => \E o \in outs : Answered(o.calls, Service, "join", "timeout")
              /\ \A o \in outs :
                    LET n == Len(o.calls)
                        joins == {k \in DOMAIN o.calls : o.calls[k].call = "join"}
                        stops == {k \in DOMAIN o.calls : o.calls[k].call = "watcher_stop"}
                    IN  /\ o.calls[1] = Log(Service, "is_running", "false")
                        /\ o.calls[n] = Log(Service, "save_state", "called")
                        /\ CountCalls(o.calls, Service, "save_state") = 1
                        /\ Cardinality(stops) = Len(folder_watchers)
                        /\ \A w \in DOMAIN folder_watchers :
                              Called(o.calls, <<folder_watchers[w].path>>, "watcher_stop")
                        /\ \A k \in stops : 1 < k /\ k < n /\ \A j \in joins : k < j
                        /\ Cardinality(joins) = IF backup_thread THEN 1 ELSE 0
                        /\ \A j \in joins : 1 < j /\ j < n
                        /\ o.running = FALSE
                        /\ Len(o.watchers) = Len(folder_watchers)
                        /\ \A w \in DOMAIN o.watchers : ~o.watchers[w].running
                        /\ o.repos = tracked_repos
                        /\ o.file = tracked_repos
                        /\ o.clock = now

\* a running service with a watcher observing, its sweep thread alive and a record that is
\* not in the snapshot yet
C17_Witness ==
    /\ is_running
    /\ backup_thread
    /\ \E w \in DOMAIN folder_watchers : folder_watchers[w].running
    /\ state_file # tracked_repos
    /\ \E o \in Stop : o.file = tracked_repos /\ o.file # state_file /\ ~o.running

\* backup_count of the record of folder f, 0 when f has no record
CountOf(repos, f) == IF IsTracked(repos, f) THEN RecordOf(repos, f).backup_count ELSE 0

\* the operation left no record with a smaller backup_count than it had
NotDecreased(repos) ==
    \A f \in Folders :
        (IsTracked(tracked_repos, f) /\ IsTracked(repos, f)) =>
            CountOf(repos, f) >= CountOf(tracked_repos, f)

\* every folder the operation pushed successfully has its backup_count one higher
PushesCounted(repos, calls) ==
    \A f \in Folders :
        Answered(calls, f, "sync_repository", "true") =>
            /\ IsTracked(repos, f)
            /\ CountOf(repos, f) = CountOf(tracked_repos, f) + 1

(* C18: backup_count counts successful pushes.  No operation other than a  *)
(* load leaves a record with a smaller backup_count, and every successful  *)
(* push of pending changes, by the sweep, by backup_repository(name), by   *)
(* force_backup(name) or by the immediate backup after process_folder      *)
(* tracks a folder with a remote outside the initial scan, leaves the      *)
(* folder's record with backup_count one higher.                           *)
C18_CountMonotonic ==
    /\ \A o \in BackupAllRepositories :
          NotDecreased(o.repos) /\ PushesCounted(o.repos, o.calls)
    /\ \A n \in Names, d \in FolderKinds :
          /\ \A o \in BackupRepositoryByName(n, d) :
                NotDecreased(o.repos) /\ PushesCounted(o.repos, o.calls)
          /\ \A o \in ForceBackup(n, d) :
                NotDecreased(o.repos) /\ PushesCounted(o.repos, o.calls)
    /\ \A n \in Names : \A o \in RemoveRepository(n) : NotDecreased(o.repos)
    /\ \A c \in ProcessFolderCalls :
          /\ NotDecreased(c.repos)
          /\ (~c.scan /\ IsGitRepo(c.before) /\ HasRemote(c.before)) =>
                PushesCounted(c.repos, c.calls)

\* the condition an operation found folder f in: d is the folder, calls what was asked of it
Condition(calls, f, d) ==
    IF ~d.exists THEN "missing"
    ELSE IF Answered(calls, f, "sync_repository", "true") THEN "push succeeds"
    ELSE IF Answered(calls, f, "has_uncommitted_changes", "false") THEN "no changes"
    ELSE "push fails"

\* what a sweep pass makes of record i, its folder found as d: [condition, record]
SweptRecords(i, d) ==
    {[condition |-> Condition(a.calls, tracked_repos[i].path, d), record |-> a.repos[i]] :
        a \in {x \in SweepRecordOn(SweepStart, i, d, project_preferences, now) :
                 ~Answered(x.calls, tracked_repos[i].path, "path_exists", "raise")}}

(* C19: backup_repository(name) and force_backup(name) reconcile a record  *)
(* as the sweep does.  For an enabled record that is the first of its name *)
(* and for each condition of its folder (missing, no changes, push         *)
(* succeeds, push fails), the record they leave is the record a sweep pass *)
(* at the same time leaves, and they report success exactly when the check *)
(* found no changes or the push succeeded.                                 *)
C19_SameReconciliation ==
    \A i \in DOMAIN tracked_repos, d \in FolderKinds :
        LET r == tracked_repos[i]
            swept == SweptRecords(i, d)
        IN  (FirstNamed(tracked_repos, r.name) = i /\ Enabled(i)) =>
              /\ \A o \in BackupRepositoryByName(r.name, d) :
                    LET c == Condition(o.calls, r.path, d)
                    IN  /\ [condition |-> c, record |-> o.repos[i]] \in swept
                        /\ o.ret = (c \in {"no changes", "push succeeds"})
              /\ \A o \in ForceBackup(r.name, d) :
                    LET c == Condition(o.calls, r.path, d)
                    IN  /\ [condition |-> c, record |-> o.repos[i]] \in swept
                        /\ o.ret.success = (c \in {"no changes", "push succeeds"})

-----------------------------------------------------------------------------
(* Config.get_path_config.  It compares path strings: the two watched      *)
(* roots are the sibling directories /w and /w2, neither inside the other. *)

\* str(Path(path_config['path']).expanduser().resolve())
RootStr(root) == IF root = "A" THEN <<"/", "w">> ELSE <<"/", "w", "2">>

\* str(repo_path.resolve())
FolderStr(f) == RootStr(RootOf(f)) \o <<"/">> \o NameOf(f)

\* str.startswith
StartsWith(s, prefix) == Len(prefix) <= Len(s) /\ SubSeq(s, 1, Len(prefix)) = prefix

\* what get_path_config returns when no watched path matches
NoPathConfig == [path |-> None, username |-> None]

\* get_path_config(f) on the configuration paths: the first watched path whose string
\* the folder's string starts with
GetPathConfig(paths, f) ==
    LET hits == {i \in DOMAIN paths : StartsWith(FolderStr(f), RootStr(paths[i].path))}
    IN  IF hits = {}
        THEN NoPathConfig
        ELSE paths[CHOOSE i \in hits : \A j \in hits : i <= j]

\* the owner stored in the record an operation made for folder f, which had none
CreatedOwners(f, outs) ==
    {RecordOf(o.repos, f).account_username :
        o \in {x \in outs : ~IsTracked(tracked_repos, f) /\ IsTracked(x.repos, f)}}

(* C20: account routing keeps watched roots apart.  For a folder under     *)
(* watched root a and any other watched root b, get_path_config returns    *)
(* a's configuration, and still does after b's account is edited; and the  *)
(* record that the scan, the watcher or add_repository without an account  *)
(* creates for the folder carries a's username.                            *)
C20_RoutedToOwnRoot ==
    \A f \in Folders, a \in DOMAIN watched_paths, b \in DOMAIN watched_paths :
        (a # b /\ watched_paths[a].path = RootOf(f)) =>
            /\ GetPathConfig(watched_paths, f) = watched_paths[a]
            /\ \A u \in Accounts \ {None} :
                  GetPathConfig([watched_paths EXCEPT ![b].username = u], f) = watched_paths[a]
            /\ CreatedOwners(f, InitialScanAll) \subseteq {watched_paths[a].username}
            /\ \A d \in Present :
                  /\ CreatedOwners(f, OnNewFolderDetected(f, a, d)) \subseteq {watched_paths[a].username}
                  /\ CreatedOwners(f, AddRepository(f, None, d)) \subseteq {watched_paths[a].username}

\* the first watched path of the configuration whose root is an ancestor of f, 0 if none
FirstAncestor(paths, f) ==
    IF \E i \in DOMAIN paths : paths[i].path = RootOf(f)
    THEN CHOOSE i \in DOMAIN paths :
            /\ paths[i].path = RootOf(f)
            /\ \A j \in 1..(i - 1) : paths[j].path # RootOf(f)
    ELSE 0

\* the configurations get_path_config is asked about: the current one, its reverse, and
\* each of its entries alone
Configurations ==
    {watched_paths, [i \in DOMAIN watched_paths |-> watched_paths[Len(watched_paths) + 1 - i]]}
        \cup {<<watched_paths[i]>> : i \in DOMAIN watched_paths}

(* C21: get_path_config returns the first watched path, in configuration   *)
(* order, whose root is an ancestor directory of the folder, and None when *)
(* no watched root is an ancestor; a root whose string is only a prefix of *)
(* the folder's string (/w for /w2/foo) is not a match.                    *)
C21_FirstAncestorResolves ==
    \A paths \in Configurations, f \in Folders :
        LET i == FirstAncestor(paths, f)
        IN  GetPathConfig(paths, f) = IF i = 0 THEN NoPathConfig ELSE paths[i]

\* every record of `before` that has a known owner and is still in `after` has the owner
\* and the creation time it had
OwnerKept(before, after) ==
    \A i \in DOMAIN before, j \in DOMAIN after :
        (before[i].account_username \notin {"unknown", None} /\ after[j].path = before[i].path) =>
            /\ after[j].account_username = before[i].account_username
            /\ after[j].created_at = before[i].created_at

(* C22: a record with a known owner keeps its account_username and its     *)
(* created_at while it is tracked.  The sweep, backup_repository(name),    *)
(* force_backup, the scan, process_folder and load_state with its account  *)
(* backfill and its repair pass, run under the configuration as it was at  *)
(* creation or as edited since, leave both fields of every such record as  *)
(* they were.                                                              *)
C22_OwnerImmutable ==
    LET swept == BackupAllRepositories
        loaded == LoadState
        scanned == InitialScanAll
    IN  /\ \A o \in swept : OwnerKept(tracked_repos, o.repos)
        /\ \A o \in loaded :
              /\ OwnerKept(state_file, o.repos)
              /\ OwnerKept(state_file, o.file)
              /\ OwnerKept(tracked_repos, o.repos)
        /\ \A o \in scanned : OwnerKept(tracked_repos, o.repos)
        /\ \A n \in Names, d \in FolderKinds :
              /\ \A o \in BackupRepositoryByName(n, d) : OwnerKept(tracked_repos, o.repos)
              /\ \A o \in ForceBackup(n, d) : OwnerKept(tracked_repos, o.repos)
        /\ \A c \in ProcessFolderCalls : OwnerKept(tracked_repos, c.repos)

\* the account of root A was edited after the folder under it was tracked for alice, and
\* the snapshot is loaded under the edited configuration: the record is still alice's
C22_Witness ==
    /\ watched_paths[1].username = "carol"
    /\ Len(state_file) = 1
    /\ state_file[1].path = world[1]
    /\ state_file[1].account_username = "alice"
    /\ state_file[1].created_at = 1
    /\ tracked_repos = state_file
    /\ now = 3
    /\ \E o \in LoadState :
          /\ o.loaded
          /\ o.repos # state_file
          /\ o.repos[1].account_username = "alice"
          /\ o.repos[1].created_at = 1

(* C23: the account of a watched root owns every record created under it.  *)
(* Whichever operation creates the record of a folder that lies under a    *)
(* watched root (the initial scan, the watcher callback, add_repository    *)
(* with an account given, add_repository without one), the record's       *)
(* account_username is the username of that root.                          *)
C23_RootAccountOwns ==
    LET scanned == InitialScanAll
    IN  \A f \in Folders :
            LET a == FirstAncestor(watched_paths, f)
                owner == {watched_paths[a].username}
            IN  a # 0 =>
                  /\ CreatedOwners(f, scanned) \subseteq owner
                  /\ \A d \in Present :
                        /\ CreatedOwners(f, OnNewFolderDetected(f, a, d)) \subseteq owner
                        /\ \A account \in Accounts :
                              CreatedOwners(f, AddRepository(f, account, d)) \subseteq owner

\* the operation changed the registry and left the snapshot different from it
Unsaved(o) == o.repos # tracked_repos /\ o.file # o.repos

-----------------------------------------------------------------------------
(* The event sink.  websocket_handler is None unless the web server sets   *)
(* it; the handlers above are the service without one.  With one, each     *)
(* broadcast is a socketio.emit that is delivered or fails.                *)

Deliveries == {"delivered", "fails"}

\* WebSocketHandler.broadcast_*: whether the call raises, and what it logs
Broadcast_Propagates(emit) ==
    [raised |-> emit = "fails", logged |-> IF emit = "fails" THEN "error" ELSE "debug"]

Broadcast(emit) ==
    [raised |-> FALSE, logged |-> IF emit = "fails" THEN "error" ELSE "debug"]

\* _backup_repository with a websocket_handler, its two broadcasts ending as emits.started
\* and emits.completed: [st, result, raised], raised when the call itself raises
BackupRepositorySink(st, f, emits) ==
    LET started == Broadcast(emits.started)
        completed == Broadcast(emits.completed)
        \* the except branch, which broadcasts the failure outside any try
        excepted(s) == [st |-> s, result |-> Result(FALSE, FALSE, "exception"),
                        raised |-> completed.raised]
    IN  IF started.raised
        THEN {excepted(st)}
        ELSE {IF b.result.message = "exception" \/ completed.raised
              THEN excepted(b.st)
              ELSE [st |-> b.st, result |-> b.result, raised |-> FALSE] :
                b \in BackupRepository(st, f)}

\* on_new_folder_detected with a websocket_handler: broadcast_project_detected follows
\* save_state, inside the try
OnNewFolderDetectedSink(f, i, d, emit) ==
    LET sent == Broadcast(emit)
        \* a broadcast that raised would be caught by the except of on_new_folder_detected
        out == IF sent.raised THEN "raise" ELSE sent.logged
    IN  {IF o.ret
         THEN [o EXCEPT !.calls = Append(@, Log(f, "broadcast_project_detected", out))]
         ELSE o : o \in OnNewFolderDetected(f, i, d)}

\* what a sweep makes of record i after _backup_repository ended as b
Reconciled(i, b) ==
    [result |-> b.result, disk |-> b.st.disk,
     record |-> ApplyResult(Stamped(SweepStart, i, b, now), i, b.result, now).repos[i]]

(* C25: deliveries to the event sink do not change reconciliation.  For a  *)
(* tracked folder that is there, _backup_repository with a                 *)
(* websocket_handler never raises and gives the same results, and the      *)
(* sweep the same records, as without one, whether the backup-started and  *)
(* the backup-completed broadcast are delivered or fail; and               *)
(* on_new_folder_detected leaves the same registry, snapshot and return    *)
(* value whether the project-detected broadcast is delivered or fails.     *)
C25_SinkFailuresIgnored ==
    /\ \A i \in DOMAIN tracked_repos, d \in Present :
          LET st == [repos |-> tracked_repos, disk |-> d, calls |-> <<>>]
              f == tracked_repos[i].path
              plain == {Reconciled(i, b) : b \in BackupRepository(st, f)}
          IN  \A emits \in [started : Deliveries, completed : Deliveries] :
                  LET sunk == BackupRepositorySink(st, f, emits)
                  IN  /\ \A s \in sunk : ~s.raised
                      /\ {Reconciled(i, s) : s \in sunk} = plain
    /\ \A f \in Folders, i \in DOMAIN watched_paths, d \in Present :
          LET plain == {<<o.repos, o.file, o.ret>> : o \in OnNewFolderDetected(f, i, d)}
          IN  \A emit \in Deliveries :
                  {<<o.repos, o.file, o.ret>> : o \in OnNewFolderDetectedSink(f, i, d, emit)} = plain

\* a tracked folder with pending changes is pushed while both broadcasts fail, and the
\* sweep counts the push
C25_Witness ==
    /\ tracked_repos # <<>>
    /\ \E d \in Present :
          /\ d.dirty
          /\ \E s \in BackupRepositorySink([repos |-> tracked_repos, disk |-> d, calls |-> <<>>],
                                           tracked_repos[1].path,
                                           [started |-> "fails", completed |-> "fails"]) :
                /\ s.result.changes_pushed
                /\ Reconciled(1, s).record.backup_count = tracked_repos[1].backup_count + 1
                /\ Reconciled(1, s).record.status = "synced"

\* the folders the validator is asked about: the conditions of the world and, for a folder
\* that is not a repository, every mix of manifest, source files, size and file count
ValidatorInputs ==
    FolderKinds
        \cup {Plain([indicator |-> x[1], code_top |-> x[2], code_sub |-> x[3],
                     total_size |-> x[4], file_count |-> x[5], walk_error |-> FALSE]) :
                x \in BOOLEAN \X BOOLEAN \X BOOLEAN \X {0, min_size_bytes - 1, min_size_bytes}
                          \X (0..4)}

(* C26: is_valid_project accepts a folder of the world exactly when it is  *)
(* a git repository, or holds a project-indicator file, or holds source    *)
(* files and is at least min_size_bytes in size, or holds at least 3       *)
(* files.                                                                  *)
C26_ValidatorAccepts ==
    \A f \in Folders, d \in {x \in ValidatorInputs : x.exists} :
        IsValidProject(d) <=>
            \/ d.git
            \/ d.content.indicator
            \/ ((d.content.code_top \/ d.content.code_sub) /\ d.content.total_size >= min_size_bytes)
            \/ d.content.file_count >= 3

\* process_folder on an untracked folder ended with init_repo or create_repository failing
CreationFailed(f, o) ==
    \/ Answered(o.st.calls, f, "init_repo", "false")
    \/ Answered(o.st.calls, f, "create_repository", "failed")

\* process_folder on the folder as the failed attempt o left it
LaterProcessing(f, o, pc, is_initial_scan) ==
    ProcessFolder([repos |-> o.st.repos, disk |-> o.st.disk, calls |-> <<>>], f, pc,
                  is_initial_scan, now)

(* C27: when init_repo or create_repository fails while process_folder     *)
(* handles an untracked folder, process_folder returns False and the       *)
(* registry is as it was, with no record for the folder; and a later       *)
(* process_folder of the same folder calls create_repository again, unless *)
(* init_repo fails again first.                                            *)
C27_FailedCreationRetried ==
    \A f \in Untracked, d \in Present, pc \in PathConfigs, x \in BOOLEAN \X BOOLEAN :
        \A o \in ProcessFolderNow(f, d, pc, x[1]) :
            CreationFailed(f, o) =>
                /\ o.ret = FALSE
                /\ o.st.repos = tracked_repos
                /\ ~IsTracked(o.st.repos, f)
                /\ \A later \in LaterProcessing(f, o, pc, x[2]) :
                      \/ Called(later.st.calls, f, "create_repository")
                      \/ Answered(later.st.calls, f, "init_repo", "false")


-----------------------------------------------------------------------------
(* The threads.  backup_loop runs on backup_thread, every watcher event on *)
(* a thread of its own, every web request on a thread of the server.  No   *)
(* lock guards tracked_repos or its records, so a thread can be preempted  *)
(* between any two of the steps below.                                     *)

\* the threads that can be inside _backup_repository or process_folder at one time
MaxThreads == 2

\* a value of tracked_repos is a dict object of its own: its key and the time it was built
EntryOf(r) == <<r.path, r.created_at>>

\* where the dict object `entry` is in the registry, 0 once it was removed or replaced
Holds(repos, entry) ==
    IF \E i \in DOMAIN repos : EntryOf(repos[i]) = entry
    THEN CHOOSE i \in DOMAIN repos : EntryOf(repos[i]) = entry
    ELSE 0

\* next() on the iterator of tracked_repos.items(): the first key it has not passed, 0 at the end
NextEntry(repos, seen) ==
    IF \A i \in DOMAIN repos : repos[i].path \in seen
    THEN 0
    ELSE CHOOSE i \in DOMAIN repos : /\ repos[i].path \notin seen
                                     /\ \A j \in 1..(i - 1) : repos[j].path \in seen

\* how a thread finds the folder of a record: gone, or a repository with or without changes
RecordKinds == {Missing, GitRepo(TRUE, FALSE), GitRepo(TRUE, TRUE)}

\* a thread inside _backup_repository(path), holding the record's dict as repo_info
Syncing(by, r, d) ==
    [by |-> by, entry |-> EntryOf(r), disk |-> d, phase |-> "sync",
     result |-> Result(FALSE, FALSE, None), count |-> 0]

\* backup_all_repositories gets to its for statement: the iterator is created
SweepBegin ==
    /\ threads.iter.phase # "running"
    /\ tracked_repos # <<>>
    /\ threads' = [threads EXCEPT !.iter = [phase |-> "running", used |-> Len(tracked_repos),
                                            seen |-> {}, began |-> Paths(tracked_repos)]]
    /\ UNCHANGED <<tracked_repos, state_file, now, cfgVars, is_running, folder_watchers, backup_thread>>

\* the for statement asks the iterator for the next record, and the body runs up to the
\* call of _backup_repository; at the end of the loop save_state
SweepStep ==
    /\ threads.iter.phase = "running"
    /\ \A k \in DOMAIN threads.syncing : threads.syncing[k].by # "sweep"
    /\ UNCHANGED <<cfgVars, is_running, folder_watchers, backup_thread>>
    /\ IF Len(tracked_repos) # threads.iter.used
       \* RuntimeError: dictionary changed size during iteration.  The for statement is
       \* outside the try of the body: the pass is left without save_state, backup_loop logs
       THEN /\ threads' = [threads EXCEPT !.iter.phase = "raised"]
            /\ UNCHANGED <<tracked_repos, state_file, now>>
       ELSE LET i == NextEntry(tracked_repos, threads.iter.seen)
            IN  IF i = 0
                THEN /\ now + 1 <= MaxTime + 1
                     /\ state_file' = tracked_repos
                     /\ now' = now + 1
                     /\ threads' = [threads EXCEPT !.iter.phase = "saved"]
                     /\ UNCHANGED tracked_repos
                ELSE \E d \in RecordKinds :
                        LET r == tracked_repos[i]
                            passed == [threads EXCEPT !.iter.seen = @ \cup {r.path}]
                            acc == [repos |-> tracked_repos, calls |-> <<>>,
                                    successful |-> 0, failed |-> 0, skipped |-> 0]
                        IN  /\ UNCHANGED <<state_file, now>>
                            /\ IF GetProjectEnabled(project_preferences, r.name) /\ d.exists
                               THEN /\ Len(threads.syncing) < MaxThreads
                                    /\ threads' = [passed EXCEPT !.syncing = Append(@, Syncing("sweep", r, d))]
                                    /\ UNCHANGED tracked_repos
                               ELSE /\ threads' = passed
                                    /\ \E a \in SweepRecordOn(acc, i, d, project_preferences, now) :
                                          tracked_repos' = a.repos

\* backup_repository(name) finds the record and its folder and calls _backup_repository
ManualBackupBegin ==
    \E n \in Names, d \in RecordKinds \cap Present :
        LET i == FirstNamed(tracked_repos, n)
        IN  /\ i # 0
            /\ Len(threads.syncing) < MaxThreads
            /\ threads' = [threads EXCEPT !.syncing = Append(@, Syncing("manual", tracked_repos[i], d))]
            /\ UNCHANGED <<tracked_repos, state_file, now, cfgVars, is_running, folder_watchers, backup_thread>>

\* _backup_repository returns: last_check (and last_backup) are stored in repo_info and
\* repo_info.get('backup_count', 0) is read
SyncReturns ==
    \E k \in DOMAIN threads.syncing :
        LET s == threads.syncing[k]
            i == Holds(tracked_repos, s.entry)
        IN  /\ s.phase = "sync"
            /\ \E b \in BackupRepository([repos |-> tracked_repos, disk |-> s.disk, calls |-> <<>>],
                                         s.entry[1]) :
                  /\ threads' = [threads EXCEPT !.syncing[k] =
                                    [s EXCEPT !.phase = "write", !.result = b.result,
                                              !.count = IF i = 0 THEN 0 ELSE tracked_repos[i].backup_count]]
                  /\ tracked_repos' =
                        IF i = 0 THEN tracked_repos
                        ELSE IF b.result.success /\ b.result.changes_pushed
                        THEN [tracked_repos EXCEPT ![i].last_check = now, ![i].last_backup = now]
                        ELSE [tracked_repos EXCEPT ![i].last_check = now]
            /\ UNCHANGED <<state_file, now, cfgVars, is_running, folder_watchers, backup_thread>>

\* the count read is stored one higher, the status follows the result; the manual backup
\* then saves and returns, the pass goes on to its next record
SyncWrites ==
    \E k \in DOMAIN threads.syncing :
        LET s == threads.syncing[k]
            i == Holds(tracked_repos, s.entry)
            written == IF i = 0 THEN tracked_repos
                       ELSE IF s.result.success /\ s.result.changes_pushed
                       THEN [tracked_repos EXCEPT ![i].backup_count = s.count + 1,
                                                  ![i].status = "synced"]
                       ELSE IF s.result.success
                       THEN [tracked_repos EXCEPT ![i].status = "no_changes"]
                       ELSE [tracked_repos EXCEPT ![i].status = "failed",
                                                  ![i].last_error = s.result.message]
        IN  /\ s.phase = "write"
            /\ tracked_repos' = written
            /\ threads' = [threads EXCEPT !.syncing = Del(@, k)]
            /\ IF s.by = "manual"
               THEN /\ now + 1 <= MaxTime + 1
                    /\ state_file' = written
                    /\ now' = now + 1
               ELSE UNCHANGED <<state_file, now>>
            /\ UNCHANGED <<cfgVars, is_running, folder_watchers, backup_thread>>

\* a thread enters process_folder(path): the path is not tracked (line 185), so it goes on.
\* The caller is a watcher's event thread or add_repository, each with its path configuration
ProcessFolderBegin ==
    \E f \in Folders, i \in DOMAIN watched_paths, d \in Present :
        /\ ~IsTracked(tracked_repos, f)
        /\ Len(threads.processing) < MaxThreads
        /\ threads' =
              [threads EXCEPT
                 !.processing = Append(@, [path |-> f, pc |-> i, disk |-> d]),
                 \* the calls of create_repository are kept for the invocations that overlap
                 !.created = IF \E k \in DOMAIN threads.processing : threads.processing[k].path = f
                             THEN @
                             ELSE SelectSeq(@, LAMBDA c : c.path # f)]
        /\ UNCHANGED <<tracked_repos, state_file, now, cfgVars, is_running, folder_watchers, backup_thread>>

\* the rest of process_folder, and the caller's save_state when it returned True
ProcessFolderEnd ==
    \E k \in DOMAIN threads.processing :
        LET p == threads.processing[k]
            st == [repos |-> tracked_repos, disk |-> p.disk, calls |-> <<>>]
            outs == IF IsGitRepo(p.disk)
                    THEN ProcessExistingGitRepo(st, p.path, watched_paths[p.pc], FALSE, now)
                    ELSE ProcessNonGitFolder(st, p.path, watched_paths[p.pc], FALSE, now)
            attempts(log) == SelectSeq(log, LAMBDA c : c.call = "create_repository")
        IN  /\ now + 1 <= MaxTime + 1
            /\ \E e \in {<<o.st.repos, o.ret, [j \in DOMAIN attempts(o.st.calls) |->
                                                 [path |-> p.path, out |-> attempts(o.st.calls)[j].out]]>> :
                            o \in outs} :
                  /\ tracked_repos' = e[1]
                  /\ state_file' = IF e[2] THEN e[1] ELSE state_file
                  /\ threads' = [threads EXCEPT !.processing = Del(@, k), !.created = @ \o e[3]]
            /\ now' = now + 1
            /\ UNCHANGED <<cfgVars, is_running, folder_watchers, backup_thread>>

\* a pass of the backup thread while watcher events and removals go on
NextSweep == Scan \/ Remove \/ NewFolder \/ SweepBegin \/ SweepStep \/ SyncReturns \/ SyncWrites

SpecSweep == InitTwo /\ [][NextSweep]_vars

\* invocations of process_folder that overlap
NextFolders == Remove \/ ProcessFolderBegin \/ ProcessFolderEnd

SpecFolders == InitTwo /\ [][NextFolders]_vars

\* manual backups while the backup thread is in a pass
NextSync == Scan \/ SweepBegin \/ SweepStep \/ ManualBackupBegin \/ SyncReturns \/ SyncWrites

SpecSync == Init /\ [][NextSync]_vars

-----------------------------------------------------------------------------
\* C28: a pass that is in progress while a watcher event or a manual add or remove changes
\* the set of records still completes: it does not end by raising, and when it has persisted
\* it has processed every record that was tracked when it began and is still tracked
C28_SweepSurvivesChanges ==
    /\ threads.iter.phase # "raised"
    /\ threads.iter.phase = "saved" =>
          \A p \in threads.iter.began \cap Paths(tracked_repos) : p \in threads.iter.seen


-----------------------------------------------------------------------------
\* the calls of create_repository for folder f by the invocations that overlap, in order
Attempts(f) == SelectSeq(threads.created, LAMBDA c : c.path = f)

\* C29: when invocations of process_folder for the same untracked path overlap, the remote
\* repository is not asked for again once a call of create_repository succeeded (only the
\* last call may have succeeded), and the path has at most one record
C29_CreatedOnce ==
    \A f \in Folders :
        /\ \A k \in 1..(Len(Attempts(f)) - 1) : Attempts(f)[k].out = "failed"
        /\ Cardinality({i \in DOMAIN tracked_repos : tracked_repos[i].path = f}) <= 1


-----------------------------------------------------------------------------
\* the threads that are inside a sync of the folder of record r, or past it with the
\* record's update not yet written
Updating(r) == {k \in DOMAIN threads.syncing : threads.syncing[k].entry = EntryOf(r)}

\* C30: the read-modify-write on one record is mutually exclusive: at most one sync of the
\* record's folder is in progress at a time, and no thread writes a backup_count back from
\* a value that another operation has replaced since it was read (no update is lost)
C30_RecordUpdatesExclusive ==
    \A i \in DOMAIN tracked_repos :
        /\ Cardinality(Updating(tracked_repos[i])) <= 1
        /\ \A k \in Updating(tracked_repos[i]) :
              (threads.syncing[k].phase = "write"
                  /\ threads.syncing[k].result.success
                  /\ threads.syncing[k].result.changes_pushed)
              => threads.syncing[k].count = tracked_repos[i].backup_count


-----------------------------------------------------------------------------
(* start(), stop() and the backup_loop threads, step by step.  A loop is   *)
(* at its `while self.is_running` test, inside backup_all_repositories,    *)
(* at the test of the inner sleep loop, inside time.sleep(chunk), inside   *)
(* the time.sleep(60) of its except branch, or it has returned.            *)

\* the chunks of 10 s the sleep between two passes is cut into (backup_interval / 10)
MaxChunks == 2

Loops == 1..MaxLoops

Alive == {k \in Loops : threads.loops[k].at # "ended"}

\* loop k moves on; the service's other fields stay
LoopMoves(k, loop) ==
    /\ threads' = [threads EXCEPT !.loops[k] = loop]
    /\ backup_thread' = IF k = threads.current /\ loop.at = "ended" THEN FALSE ELSE backup_thread
    /\ UNCHANGED <<cfgVars, is_running, folder_watchers>>

\* start() on the main thread: when it gets as far as start_backup_loop, a new thread is
\* started and self.backup_thread refers to it, whatever it referred to before
StartThreads ==
    \E valid \in BOOLEAN, auth \in [DOMAIN watched_paths -> BOOLEAN],
       k \in Loops \ Alive :
        /\ ~threads.stopping
        /\ \E e \in {<<o.repos, o.file, o.clock, o.running, o.watchers, o.thread>> :
                        o \in Start(valid, auth, [i \in DOMAIN watched_paths |-> "running"])} :
              /\ e[3] <= MaxTime + 1
              /\ tracked_repos' = e[1]
              /\ state_file' = e[2]
              /\ now' = e[3]
              /\ is_running' = e[4]
              /\ folder_watchers' = e[5]
              /\ backup_thread' = e[6]
              /\ threads' = IF e[4] /\ ~is_running
                            THEN [threads EXCEPT !.loops[k] = [at |-> "test", used |-> 0, left |-> 0],
                                                 !.current = k]
                            ELSE threads
        /\ UNCHANGED cfgVars

\* stop() up to backup_thread.join(timeout=10): the flag is cleared, the watchers are stopped
StopBegin ==
    /\ is_running
    /\ ~threads.stopping
    /\ is_running' = FALSE
    /\ folder_watchers' = [k \in DOMAIN folder_watchers |-> [folder_watchers[k] EXCEPT !.running = FALSE]]
    /\ threads' = [threads EXCEPT !.stopping = TRUE]
    /\ UNCHANGED <<tracked_repos, state_file, now, cfgVars, backup_thread>>

\* join returns, because the thread has ended or because the 10 s are over; save_state
StopEnd ==
    /\ threads.stopping
    /\ state_file' = tracked_repos
    /\ threads' = [threads EXCEPT !.stopping = FALSE]
    /\ UNCHANGED <<tracked_repos, now, cfgVars, is_running, folder_watchers, backup_thread>>

\* while self.is_running: the loop enters backup_all_repositories, or returns
LoopTest(k) ==
    /\ k \in Alive
    /\ threads.loops[k].at = "test"
    /\ IF is_running
       \* the clock tick of the pass is taken as the pass begins
       THEN /\ now + 1 <= MaxTime + 1
            /\ now' = now + 1
            /\ LoopMoves(k, [at |-> "pass", used |-> Len(tracked_repos), left |-> 0])
       ELSE /\ now' = now
            /\ LoopMoves(k, NoLoop)
    /\ UNCHANGED <<tracked_repos, state_file>>

\* backup_all_repositories returns: the pass has updated the records and saved
LoopPassEnds(k) ==
    /\ k \in Alive
    /\ threads.loops[k].at = "pass"
    /\ \E e \in {<<o.repos, o.file>> : o \in BackupLoopPass} :
          /\ tracked_repos' = e[1]
          /\ state_file' = e[2]
    /\ now' = now
    /\ LoopMoves(k, [at |-> "check", used |-> 0, left |-> MaxChunks])

\* the registry got or lost a record while the pass was iterating it: RuntimeError leaves
\* backup_all_repositories, the except branch of backup_loop logs it and sleeps 60 s
LoopPassRaises(k) ==
    /\ k \in Alive
    /\ threads.loops[k].at = "pass"
    /\ threads.loops[k].used # 0
    /\ threads.loops[k].used # Len(tracked_repos)
    /\ LoopMoves(k, [at |-> "backoff", used |-> 0, left |-> 0])
    /\ UNCHANGED <<tracked_repos, state_file, now>>

LoopSleepCheck_IgnoresFlag(k) ==
    /\ k \in Alive
    /\ threads.loops[k].at = "check"
    /\ LoopMoves(k, IF threads.loops[k].left > 0
                    THEN [threads.loops[k] EXCEPT !.at = "chunk"]
                    ELSE [at |-> "test", used |-> 0, left |-> 0])
    /\ UNCHANGED <<tracked_repos, state_file, now>>

\* while sleep_time > 0 and self.is_running
LoopSleepCheck(k) ==
    /\ k \in Alive
    /\ threads.loops[k].at = "check"
    /\ LoopMoves(k, IF threads.loops[k].left > 0 /\ is_running
                    THEN [threads.loops[k] EXCEPT !.at = "chunk"]
                    ELSE [at |-> "test", used |-> 0, left |-> 0])
    /\ UNCHANGED <<tracked_repos, state_file, now>>

\* time.sleep(chunk) returns; sleep_time -= chunk
LoopChunkEnds(k) ==
    /\ k \in Alive
    /\ threads.loops[k].at = "chunk"
    /\ LoopMoves(k, [at |-> "check", used |-> 0, left |-> threads.loops[k].left - 1])
    /\ UNCHANGED <<tracked_repos, state_file, now>>

\* time.sleep(60) returns
LoopBackoffEnds(k) ==
    /\ k \in Alive
    /\ threads.loops[k].at = "backoff"
    /\ LoopMoves(k, [at |-> "test", used |-> 0, left |-> 0])
    /\ UNCHANGED <<tracked_repos, state_file, now>>

\* one step of loop k
LoopStep(k) ==
    \/ LoopTest(k)
    \/ LoopPassEnds(k)
    \/ LoopPassRaises(k)
    \/ LoopSleepCheck(k)
    \/ LoopChunkEnds(k)
    \/ LoopBackoffEnds(k)

LoopSteps == \E k \in Loops : LoopStep(k)

\* the service started and stopped, its loops, and records removed at any time
NextLoop == StartThreads \/ StopBegin \/ StopEnd \/ LoopSteps \/ Remove

SpecLoop == Init /\ [][NextLoop]_vars


-----------------------------------------------------------------------------
\* stop() has returned and the service was not started again
Stopped == ~is_running /\ ~threads.stopping

\* C31: after stop() has returned, no step of a backup_loop thread changes the registry or
\* the snapshot file, so the snapshot that stop() wrote stays equal to the registry
C31_StoppedSweepIsQuiet ==
    [][(Stopped /\ LoopSteps) => UNCHANGED <<tracked_repos, state_file>>]_vars


-----------------------------------------------------------------------------
\* loop k goes to sleep or into a pass in this step
Resumes(k) ==
    /\ threads.loops[k].at \notin {"chunk", "pass"}
    /\ threads'.loops[k].at \in {"chunk", "pass"}

\* every thread that is alive is scheduled again and again: a sleep ends, a pass returns
SpecLoopFair == SpecLoop /\ \A k \in Loops : WF_vars(LoopStep(k))

\* C32: once the flag is cleared, a loop that is sleeping between two passes finishes the
\* chunk it is in and begins no further chunk and no further pass (while the flag is
\* cleared no loop goes to sleep or into a pass); and when the flag is cleared and stays
\* cleared, every loop eventually returns
C32_LoopEndsOnceCleared ==
    /\ [][~is_running => \A k \in Loops : ~Resumes(k)]_vars
    /\ (<>[](~is_running)) => <>[](Alive = {})

\* a loop is asleep between two passes, the flag is cleared, stop() is waiting for it
C32_Witness ==
    /\ ~is_running
    /\ threads.stopping
    /\ \E k \in Loops : threads.loops[k].at = "chunk" /\ threads.loops[k].left = MaxChunks


-----------------------------------------------------------------------------
\* C33: at most one backup_loop thread is alive at any time, over any sequence of start
\* and stop calls
C33_OneLoopAlive == Cardinality(Alive) <= 1


-----------------------------------------------------------------------------
(* The watchers' event threads.  NewFolderHandler starts a thread for      *)
(* every directory event; the thread runs FolderWatcher.process_new_folder *)
(* and stands at the membership test of watched_folders, before the add,   *)
(* in time.sleep(processing_delay), at folder_path.exists() or inside      *)
(* is_valid_project.  Watcher k is folder_watchers[k].                     *)

Bar == <<"b", "a", "r">>

\* two folders that appear under the same watched root while the service runs
Siblings == {<<"A", Foo>>, <<"A", Bar>>}

\* the directories events can report: those that were there and the new ones
Created == Folders \cup Siblings

\* watcher k's own watched_folders
WatchedFolders(k) == {f \in Created : <<k, f>> \in threads.watched_folders}

\* the times watcher k called on_new_folder_callback(f): the n-th call is kept as <<k, f, n>>
Callbacks(k, f) == Cardinality({c \in threads.callbacks : c[1] = k /\ c[2] = f})

\* an event thread passes a stage of process_new_folder and moves on, or returns; nothing
\* of the service changes
EventMoves(e, stage, at) ==
    /\ threads' = [threads EXCEPT !.events[e].at = at, !.events[e].passed = Append(@, stage)]
    /\ UNCHANGED <<tracked_repos, state_file, now, cfgVars, is_running, folder_watchers, backup_thread>>

EventEnds(e) ==
    /\ threads' = [threads EXCEPT !.events = Del(@, e)]
    /\ UNCHANGED <<tracked_repos, state_file, now, cfgVars, is_running, folder_watchers, backup_thread>>

\* a thread with target process_new_folder and args (f,) is started for watcher k
EventThread(k, f) == [watcher |-> k, path |-> f, at |-> "test", passed |-> <<>>]

OnCreated_Inline ==
    \E k \in DOMAIN folder_watchers, f \in Created :
        /\ folder_watchers[k].running
        /\ folder_watchers[k].path = RootOf(f)
        /\ threads.events = <<>>
        /\ threads' = [threads EXCEPT !.events = Append(@, EventThread(k, f))]
        /\ UNCHANGED <<tracked_repos, state_file, now, cfgVars, is_running, folder_watchers, backup_thread>>

\* NewFolderHandler.on_created: the observer of a running watcher reports a directory
\* created under its root
OnCreated ==
    \E k \in DOMAIN folder_watchers, f \in Created :
        /\ folder_watchers[k].running
        /\ folder_watchers[k].path = RootOf(f)
        /\ Len(threads.events) < MaxThreads
        /\ threads' = [threads EXCEPT !.events = Append(@, EventThread(k, f))]
        /\ UNCHANGED <<tracked_repos, state_file, now, cfgVars, is_running, folder_watchers, backup_thread>>

\* NewFolderHandler.on_moved: a directory moved or renamed to f, handled as a creation of f
OnMoved ==
    \E k \in DOMAIN folder_watchers, f \in Created :
        /\ folder_watchers[k].running
        /\ folder_watchers[k].path = RootOf(f)
        /\ Len(threads.events) < MaxThreads
        /\ threads' = [threads EXCEPT !.events = Append(@, EventThread(k, f))]
        /\ UNCHANGED <<tracked_repos, state_file, now, cfgVars, is_running, folder_watchers, backup_thread>>

\* if folder_str in self.watched_folders: return
DedupTest(e) ==
    /\ e \in DOMAIN threads.events
    /\ threads.events[e].at = "test"
    /\ IF threads.events[e].path \in WatchedFolders(threads.events[e].watcher)
       THEN EventEnds(e)
       ELSE EventMoves(e, "dedup", "add")

DedupAdd_NoIgnoreTest(e) ==
    /\ e \in DOMAIN threads.events
    /\ threads.events[e].at = "add"
    /\ threads' = [threads EXCEPT
                     !.watched_folders = @ \cup {<<threads.events[e].watcher, threads.events[e].path>>},
                     !.events[e].at = "delay"]
    /\ UNCHANGED <<tracked_repos, state_file, now, cfgVars, is_running, folder_watchers, backup_thread>>

\* self.watched_folders.add(folder_str), then if should_ignore_folder: return
DedupAdd(e) ==
    /\ e \in DOMAIN threads.events
    /\ threads.events[e].at = "add"
    /\ LET ev == threads.events[e]
           added == [threads EXCEPT !.watched_folders = @ \cup {<<ev.watcher, ev.path>>}]
       IN  threads' = IF ShouldIgnoreFolder(NameOf(ev.path))
                      THEN [added EXCEPT !.events = Del(@, e)]
                      ELSE [added EXCEPT !.events[e].at = "delay",
                                         !.events[e].passed = Append(@, "ignore")]
    /\ UNCHANGED <<tracked_repos, state_file, now, cfgVars, is_running, folder_watchers, backup_thread>>

\* time.sleep(self.processing_delay) returns
DelayEnds(e) ==
    /\ e \in DOMAIN threads.events
    /\ threads.events[e].at = "delay"
    /\ EventMoves(e, "delay", "exists")

\* if not folder_path.exists(): return
ExistsTest(e) ==
    /\ e \in DOMAIN threads.events
    /\ threads.events[e].at = "exists"
    /\ \E exists \in BOOLEAN : IF exists THEN EventMoves(e, "exists", "validate") ELSE EventEnds(e)

\* if self.is_valid_project(folder_path): the validator returns for the folder as it is now
ValidationEnds(e) ==
    /\ e \in DOMAIN threads.events
    /\ threads.events[e].at = "validate"
    /\ \E d \in FolderKinds : IF IsValidProject(d) THEN EventMoves(e, "valid", "emit") ELSE EventEnds(e)

\* self.on_new_folder_callback(folder_path), and the thread ends
Emit(e) ==
    /\ e \in DOMAIN threads.events
    /\ threads.events[e].at = "emit"
    /\ LET ev == threads.events[e]
       IN  threads' = [threads EXCEPT
                         !.events = Del(@, e),
                         !.callbacks = @ \cup {<<ev.watcher, ev.path, Callbacks(ev.watcher, ev.path) + 1>>}]
    /\ UNCHANGED <<tracked_repos, state_file, now, cfgVars, is_running, folder_watchers, backup_thread>>

\* start() with a valid configuration and every account authenticated: the watchers of
\* all watched paths are created and started
StartWatching ==
    DoService(Start(TRUE, [i \in DOMAIN watched_paths |-> TRUE],
                    [i \in DOMAIN watched_paths |-> "running"]))

\* one step of event thread e in process_new_folder
EventStep(e) ==
    \/ DedupTest(e)
    \/ DedupAdd(e)
    \/ DelayEnds(e)
    \/ ExistsTest(e)
    \/ ValidationEnds(e)
    \/ Emit(e)

EventSteps == \E e \in 1..MaxThreads : EventStep(e)

NextWatch == StartWatching \/ OnCreated \/ OnMoved \/ EventSteps

\* the service before start(), the first root still empty
InitWatch ==
    /\ tracked_repos = <<>>
    /\ state_file = <<>>
    /\ now = 1
    /\ project_preferences = {}
    /\ watched_paths = <<[path |-> "A", username |-> "alice"], [path |-> "B", username |-> "bob"]>>
    /\ world = <<(<<"B", Tmp>>)>>
    /\ NotStarted

SpecWatch == InitWatch /\ [][NextWatch]_vars


\* C34: within one watcher's lifetime the new-project callback is invoked at most once
\* per folder path, whatever the interleaving of the per-event threads
C34_CallbackOncePerPath ==
    \A k \in DOMAIN folder_watchers, f \in Created : Callbacks(k, f) <= 1


\* the tests of process_new_folder, in the order the code makes them
EmitOrder == <<"dedup", "ignore", "delay", "exists", "valid">>

\* the event threads that are about to call the callback
Emitting == {e \in DOMAIN threads.events : threads.events[e].at = "emit"}

\* C35: the watcher calls the callback for a folder only when the folder is not ignored, the
\* settle delay has elapsed, the folder still existed after the delay and the validator
\* accepted it after the delay, the tests being made in the order dedup, ignore, delay,
\* existence, validation; an ignored folder reaches neither the delay nor the validator
C35_EmitsOnlyAfterAllTests ==
    /\ [](\A e \in DOMAIN threads.events :
            /\ threads.events[e].at = "emit" =>
                  /\ threads.events[e].passed = EmitOrder
                  /\ ~ShouldIgnoreFolder(NameOf(threads.events[e].path))
            /\ ShouldIgnoreFolder(NameOf(threads.events[e].path)) =>
                  threads.events[e].at \in {"test", "add"})
    /\ [][\A c \in threads'.callbacks \ threads.callbacks :
            \E e \in Emitting : threads.events[e].watcher = c[1] /\ threads.events[e].path = c[2]]_vars

C35_Witness ==
    /\ \E c \in threads.callbacks : ~ShouldIgnoreFolder(NameOf(c[2]))
    /\ \E k \in DOMAIN folder_watchers : \E f \in WatchedFolders(k) : ShouldIgnoreFolder(NameOf(f))


\* every started event thread keeps running: its sleep ends and its tests return
SpecWatchFair == SpecWatch /\ \A e \in 1..MaxThreads : WF_vars(EventStep(e))

\* an event thread for f is in its settle delay, its existence test or its validation
Processing(f) ==
    \E e \in DOMAIN threads.events :
        threads.events[e].path = f /\ threads.events[e].at \in {"delay", "exists", "validate"}

\* a running watcher observes the root of f
Watched(f) ==
    \E k \in DOMAIN folder_watchers : folder_watchers[k].running /\ folder_watchers[k].path = RootOf(f)

\* the newest event thread is one for g that is about to begin
Begins(g) ==
    /\ threads.events # <<>>
    /\ threads.events[Len(threads.events)].path = g
    /\ threads.events[Len(threads.events)].at = "test"

\* C36: detection is never blocked by processing: while one folder is in its settle delay
\* or its validation, a creation event and a move event for another folder under the same
\* root are accepted and their processing starts, and the processing of each folder
\* comes to its end
C36_DetectionNotBlocked ==
    /\ [](\A f \in Created, g \in Created :
            (f # g /\ RootOf(f) = RootOf(g) /\ Processing(f) /\ Watched(g)
               /\ Len(threads.events) < MaxThreads)
            => /\ ENABLED (OnCreated /\ Begins(g)')
               /\ ENABLED (OnMoved /\ Begins(g)'))
    /\ \A f \in Siblings : Processing(f) ~> ~Processing(f)

C36_Witness ==
    \E f \in Created, g \in Created :
        /\ f # g /\ RootOf(f) = RootOf(g)
        /\ \E e \in DOMAIN threads.events : threads.events[e].path = f /\ threads.events[e].at = "delay"
        /\ \E e \in DOMAIN threads.events : threads.events[e].path = g /\ threads.events[e].at = "validate"


(* C37: a new-folder event raised by the watcher of root R is processed    *)
(* with R's own watched-path configuration, and the record it creates is   *)
(* owned by R's account, however many watchers there are and in whatever   *)
(* order they were started: the callback of each watcher is bound to the   *)
(* configuration of the root that watcher observes.                        *)
C37_WatcherUsesOwnConfig ==
    \A k \in DOMAIN folder_watchers :
        LET i == folder_watchers[k].callback
        IN  /\ i \in DOMAIN watched_paths
            /\ watched_paths[i].path = folder_watchers[k].path
            /\ \A f \in Folders, d \in Present :
                  RootOf(f) = folder_watchers[k].path =>
                     CreatedOwners(f, OnNewFolderDetected(f, i, d)) \subseteq {watched_paths[i].username}

C37_Witness ==
    \E k \in DOMAIN folder_watchers, f \in Folders, d \in Present :
        /\ folder_watchers[k].running
        /\ folder_watchers[k].callback # k
        /\ Len(folder_watchers) > Len(watched_paths)
        /\ RootOf(f) = folder_watchers[k].path
        /\ CreatedOwners(f, OnNewFolderDetected(f, folder_watchers[k].callback, d)) # {}


-----------------------------------------------------------------------------
(* Loading a snapshot written by an earlier version.  The snapshot holds   *)
(* up to two records, for folders under the watched roots or under none,   *)
(* with the owner missing, "unknown" or known; the configuration has two   *)
(* roots, or two entries that both contain the first root's folders.       *)

\* a record as an earlier version left it in the snapshot
LegacyRecord(f, owner, last_backup) ==
    NewRecord(f, 1, last_backup, 1, IF last_backup = Never THEN "tracked" ELSE "synced",
              "origin-url", owner)

LegacyPaths == {<<"A", Foo>>, <<"B", Foo>>, <<"C", Foo>>}

LegacyRecords ==
    {LegacyRecord(f, owner, last_backup) :
        f \in LegacyPaths, owner \in {None, "unknown", "alice"}, last_backup \in {Never, 2}}

LegacySnapshots ==
    {<<r>> : r \in LegacyRecords}
        \cup {<<p[1], p[2]>> : p \in {q \in LegacyRecords \X LegacyRecords :
                                           q[1].path = <<"A", Foo>> /\ q[2].path # q[1].path}}

LegacyConfigs ==
    {<<[path |-> "A", username |-> "alice"], [path |-> "B", username |-> "bob"]>>,
     <<[path |-> "A", username |-> "bob"], [path |-> "A", username |-> "carol"]>>}

\* a new process finds the snapshot; nothing is loaded yet
InitLoad ==
    /\ tracked_repos = <<>>
    /\ state_file \in LegacySnapshots
    /\ now = 1
    /\ project_preferences = {}
    /\ watched_paths \in LegacyConfigs
    /\ world = <<(<<"A", Foo>>), (<<"B", Foo>>)>>
    /\ NotStarted

NextLoad == Restart

SpecLoad == InitLoad /\ [][NextLoad]_vars

\* the path configurations the record's path lies under
RootsOver(r) == {j \in DOMAIN watched_paths : watched_paths[j].path = RootOf(r.path)}

\* the account backfill has something to do for the record
Ownerless(r) == r.account_username \in {None, "unknown"} /\ RootsOver(r) # {}

(* C38: the account backfill on load.  Every record whose owner is missing *)
(* or "unknown" and whose path lies under at least one configured root     *)
(* gets the account of the first such root in configuration order; every   *)
(* other record is left as it is; and the backfill saves the registry      *)
(* exactly when it patched a record.                                       *)
C38_BackfillFirstRoot ==
    LET m == MigrateRepoAccounts(state_file)
    IN  /\ Len(m.repos) = Len(state_file)
        /\ \A i \in DOMAIN state_file :
              LET r == state_file[i]
              IN  IF Ownerless(r)
                  THEN \E j \in RootsOver(r) :
                          /\ \A h \in RootsOver(r) : j <= h
                          /\ m.repos[i] = [r EXCEPT !.account_username = watched_paths[j].username]
                  ELSE m.repos[i] = r
        /\ (m.saves = 1) = (\E i \in DOMAIN state_file : Ownerless(state_file[i]))
        /\ \A o \in LoadState :
              o.loaded =>
                 /\ o.saves[1] = m.saves
                 /\ \A i \in DOMAIN state_file :
                       /\ o.repos[i].account_username = m.repos[i].account_username
                       /\ o.file # state_file => o.file[i].account_username = m.repos[i].account_username

\* the snapshot was loaded: the record under two configured entries, whose owner can only
\* come from the backfill, has the first entry's account in the registry and in the saved
\* snapshot, and the record under no root still has the owner "unknown"
C38_Witness ==
    \E i \in DOMAIN tracked_repos, j \in DOMAIN tracked_repos :
        /\ Cardinality(RootsOver(tracked_repos[i])) = 2
        /\ watched_paths[1].username = "bob"
        /\ tracked_repos[i].account_username = "bob"
        /\ state_file[i].account_username = "bob"
        /\ RootsOver(tracked_repos[j]) = {}
        /\ tracked_repos[j].account_username = "unknown"


RECURSIVE MigrateWith_Aborts(_, _, _)
MigrateWith_Aborts(acc, i, ks) ==
    IF i > Len(acc.repos) \/ ks[i].raises
    THEN acc
    ELSE LET m == MigrateRecord(acc.repos[i], ks[i])
         IN  MigrateWith_Aborts([repos |-> [acc.repos EXCEPT ![i] = m.rec],
                                 updated |-> acc.updated \/ m.updated], i + 1, ks)

RECURSIVE MigrateWith(_, _, _)
\* the loop of _migrate_backup_timestamps from record i on when the folder of record j is
\* found as ks[j]; acc = [repos, updated]
MigrateWith(acc, i, ks) ==
    IF i > Len(acc.repos)
    THEN acc
    ELSE LET m == MigrateRecord(acc.repos[i], ks[i])
         IN  MigrateWith([repos |-> [acc.repos EXCEPT ![i] = m.rec],
                          updated |-> acc.updated \/ m.updated], i + 1, ks)

\* the snapshots whose records lie under the two watched roots, with the owner missing or known
RepairSnapshots ==
    {s \in LegacySnapshots :
        \A i \in DOMAIN s : s[i].account_username # "unknown" /\ s[i].path \in {<<"A", Foo>>, <<"B", Foo>>}}

\* a new process finds one of them under the configuration of the two roots
InitRepair ==
    /\ tracked_repos = <<>>
    /\ state_file \in RepairSnapshots
    /\ now = 1
    /\ project_preferences = {}
    /\ watched_paths = <<[path |-> "A", username |-> "alice"], [path |-> "B", username |-> "bob"]>>
    /\ world = <<(<<"A", Foo>>), (<<"B", Foo>>)>>
    /\ NotStarted

SpecRepair == InitRepair /\ [][NextLoad]_vars

\* what the two passes of load_state make of the snapshot `repos` when the folder of
\* record i is found as ks[i]: [repos, saves]
Reloaded(repos, ks) ==
    LET a == MigrateRepoAccounts(repos)
        m == MigrateWith([repos |-> a.repos, updated |-> FALSE], 1, ks)
    IN  [repos |-> m.repos, saves |-> <<a.saves, IF m.updated THEN 1 ELSE 0>>]

(* C39: the repair pass on load is idempotent and confines errors.  For    *)
(* every way the folders and their commit histories can be, one that makes *)
(* the repair of a record raise included, load_state ends loaded with      *)
(* every record repaired from its own folder; and loading the result again *)
(* with the folders and histories unchanged changes no record and saves    *)
(* nothing.                                                                *)
C39_RepairIdempotent ==
    LET loads == {o \in LoadState : o.loaded}
        base == MigrateRepoAccounts(state_file).repos
        found == [DOMAIN state_file -> LoadKinds]
    IN  /\ \A o \in loads : o.file = o.repos
        /\ {<<o.repos, o.saves>> : o \in loads}
              = {<<Reloaded(state_file, ks).repos, Reloaded(state_file, ks).saves>> : ks \in found}
        /\ \A ks \in found :
              LET first == Reloaded(state_file, ks)
                  second == Reloaded(first.repos, ks)
              IN  /\ \A i \in DOMAIN state_file : first.repos[i] = MigrateRecord(base[i], ks[i]).rec
                  /\ second.repos = first.repos
                  /\ second.saves = <<0, 0>>

\* a loaded registry of two records: the first was left as it was in the snapshot, as when
\* its repair raised, and the second was repaired
C39_Witness ==
    /\ Len(tracked_repos) = 2
    /\ state_file = tracked_repos
    /\ tracked_repos[1].last_backup = Never
    /\ tracked_repos[2].backup_count = 2
    /\ tracked_repos[2].last_backup = 1
    /\ \E ks \in [DOMAIN state_file -> LoadKinds] :
          /\ ks[1].raises
          /\ ks[2].info /\ ks[2].count_ok /\ ks[2].count = 2 /\ ks[2].date = 1
          /\ Reloaded(state_file, ks) = [repos |-> tracked_repos, saves |-> <<0, 0>>]


(* C40: a record created through remote creation (status synced,           *)
(* has_remote true, backup_count 1) is recorded only when the folder       *)
(* really has a remote configured and its content was pushed, also when a  *)
(* hosted repository of the same name existed already.                     *)
C40_SyncedOnlyWhenPushed ==
    \A f \in Untracked, pc \in PathConfigs, d \in Present :
        \A o \in Processed(f, d, pc) :
            (/\ IsTracked(o.st.repos, f)
             /\ RecordOf(o.st.repos, f).status = "synced"
             /\ RecordOf(o.st.repos, f).has_remote
             /\ RecordOf(o.st.repos, f).backup_count = 1)
            => /\ HasRemote(o.st.disk)
               /\ Answered(o.st.calls, f, "create_repository", "created")

====
